---------------------------- MODULE Spec2Model ----------------------------
(***************************************************************************)
(* A model of the archive engine of aviationwx.org-archiver                *)
(* (src/app/archiver.py): the resumable, integrity-verified frame download *)
(* (download_image_to_file), the archive paths of the save functions, the  *)
(* per-airport pending queues, the round-robin pass under a deadline       *)
(* (run_archive / _run_archive_round_robin) and the retention pass.        *)
(*                                                                         *)
(* File contents are sequences of blocks of BlockSize bytes; a block value *)
(* stands for the bytes it holds.  A date directory YYYY/MM/DD is the day  *)
(* number of the timestamp.  Strings that the code transforms (camera      *)
(* names) are sequences of one-character strings.                          *)
(***************************************************************************)
EXTENDS Integers, Sequences, FiniteSets, TLC

VARIABLES
    dl,         \* download_image_to_file: the locals of one call and the file at filepath
    pc,         \* run_archive: position of the pass
    now,        \* time.time(), in seconds
    deadline,   \* the deadline of the pass (NoDeadline: none)
    fs,         \* the archive tree: the set of files, each [path, data, mtime]
    queues,     \* _run_archive_round_robin: queues[code], the pending items of an airport
    codes,      \* _run_archive_round_robin: the airports still in rotation
    loop,       \* the locals of the pass: the selected airports, the rest of each loop
    stats,      \* the stats record of the pass
    upstream,   \* what the API serves: the airports, their webcams, their history frames
    cfg,        \* the configuration snapshot of the pass
    hist,       \* history of the pass (not program state): what the claims speak about
    rt,         \* apply_retention: one call on an archive of its own
    sch,        \* the scheduler process, its worker and the channel between them
    sv,         \* save_image and save_history_image: one call on an archive of its own
    ov,         \* two passes that download the same frame to the same path
    wr,         \* one scheduled run: _archive_job marks it, run_archive_worker times it
    sa,         \* select_airports: one call on a listing and a configuration
    lg,         \* _append_log: log_entries and _log_bytes of the scheduler state
    rl          \* _rate_limit: the skip flag and the calls of one pass

vars == <<dl, pc, now, deadline, fs, queues, codes, loop, stats, upstream, cfg, hist,
          rt, sch, sv, ov, wr, sa, lg, rl>>

passVars == <<pc, now, deadline, fs, queues, codes, loop, stats, upstream, cfg, hist>>

\* the calls that are modelled on their own
callVars == <<rt, sch, sv, ov, wr, sa, lg, rl>>

-----------------------------------------------------------------------------
(* Program constants *)

MIN_IMAGE_SIZE == 256

SECONDS_PER_DAY == 86400

(* Bounds of the model *)

\* blocks in a response body
MaxBodyBlocks == 2

\* blocks in a file found at the destination when a download starts
MaxPartialBlocks == 3

\* source.max_retries of the download specification
MaxRetries == 2

\* digests are numbers below HashMod
HashMod == 5

\* a block is half of the smallest plausible image
BlockSize == MIN_IMAGE_SIZE \div 2

BlockValues == {0, 1}

-----------------------------------------------------------------------------
(* Files and hashes *)

\* the file at one path: absent, or its content
NoFile == [exists |-> FALSE, data |-> <<>>]

FileOf(data) == [exists |-> TRUE, data |-> data]

\* os.path.getsize
getsize(data) == Len(data) * BlockSize

RECURSIVE Checksum(_)
\* the digest of a content: a polynomial of its blocks, reduced to HashMod values
Checksum(data) ==
    IF data = <<>> THEN 1 % HashMod
    ELSE (3 * Checksum(Tail(data)) + Head(data) + 1) % HashMod

\* hashlib.new(algo) over the content; digests of different algorithms never compare equal
HashOf(algo, data) == <<algo, Checksum(data)>>

Mut_delete_partial_file(file) == file

\* _delete_partial_file: os.unlink when the file is there
_delete_partial_file(file) == NoFile

Mut_verify_file_integrity(file, algo, expected) == file.exists

\* _verify_file_integrity: the hash of the file against the expected digest
_verify_file_integrity(file, algo, expected) ==
    file.exists /\ HashOf(algo, file.data) = <<algo, expected>>

-----------------------------------------------------------------------------
(* Responses of the image server *)

NoDigest == -1

NoTotal == -1

\* a header digest: absent (or unparseable), the digest of the body sent, or another one
DigestKinds == {"absent", "match", "wrong"}

DigestValue(kind, body) ==
    CASE kind = "absent" -> NoDigest
      [] kind = "match"  -> Checksum(body)
      [] kind = "wrong"  -> (Checksum(body) + 1) % HashMod

\* the integrity headers of a response, as parsed: Content-Digest per algorithm,
\* Content-MD5, and an ETag of 32 hex characters
Headers(k256, k512, kmd5, kcmd5, ketag, body) ==
    [cd_sha256 |-> DigestValue(k256, body), cd_sha512 |-> DigestValue(k512, body),
     cd_md5 |-> DigestValue(kmd5, body), content_md5 |-> DigestValue(kcmd5, body),
     etag |-> DigestValue(ketag, body)]

NoHeaders == Headers("absent", "absent", "absent", "absent", "absent", <<>>)

RECURSIVE SeqsUpTo(_, _)
SeqsUpTo(S, n) ==
    IF n = 0 THEN {<<>>}
    ELSE LET shorter == SeqsUpTo(S, n - 1)
         IN  shorter \cup {Append(s, x) : s \in shorter, x \in S}

Bodies == SeqsUpTo(BlockValues, MaxBodyBlocks)

\* what can go wrong on the way: nothing; requests.get raising (connection, timeout);
\* the stream breaking after the body's blocks were written (RequestException);
\* open() raising OSError; a write raising OSError after the body's blocks were written
Faults == {"none", "get", "stream", "open", "write"}

Response(status, image, body, total, headers, fault) ==
    [status |-> status, image |-> image, body |-> body, total |-> total,
     headers |-> headers, fault |-> fault]

\* 404/410, an error status, a connection error: the rest of the response is not read
ResponsesGone == {Response(s, FALSE, <<>>, NoTotal, NoHeaders, "none") : s \in {404, 410}}

ResponsesError ==
    {Response(500, FALSE, <<>>, NoTotal, NoHeaders, "none"),
     Response(200, FALSE, <<>>, NoTotal, NoHeaders, "get")}

ResponsesNonImage ==
    {Response(s, FALSE, <<>>, NoTotal, NoHeaders, "none") : s \in {200, 206}}

\* the combinations of integrity headers a response carries: at most two of the five
\* at once, each the digest of the body sent or another one
HeaderKinds ==
    {k \in [1..5 -> DigestKinds] : Cardinality({i \in 1..5 : k[i] # "absent"}) <= 2}

\* a full response: any body, any of these combinations of integrity headers
ResponsesFull ==
    {Response(200, TRUE, b, NoTotal, Headers(k[1], k[2], k[3], k[4], k[5], b), "none") :
        b \in Bodies, k \in HeaderKinds}
    \cup
    {Response(200, TRUE, b, NoTotal, NoHeaders, f) :
        b \in Bodies, f \in {"stream", "open", "write"}}

\* a range response: any body, a Content-Range total or none, a Content-Digest and
\* an ETag or none
ResponsesPartial ==
    {Response(206, TRUE, b, t, Headers(k1, "absent", "absent", "absent", k5, b), "none") :
        b \in Bodies,
        t \in {NoTotal} \cup {n * BlockSize : n \in 0..(MaxPartialBlocks + MaxBodyBlocks)},
        k1 \in DigestKinds, k5 \in {"absent", "wrong"}}
    \cup
    {Response(206, TRUE, b, NoTotal, NoHeaders, f) :
        b \in Bodies, f \in {"stream", "open", "write"}}

Responses ==
    ResponsesGone \cup ResponsesError \cup ResponsesNonImage \cup ResponsesFull
    \cup ResponsesPartial

-----------------------------------------------------------------------------
(* Integrity headers *)

NoIntegrity == <<"none", NoDigest>>

\* _parse_content_digest: the first supported algorithm, sha-256 > sha-512 > md5
_parse_content_digest(headers) ==
    IF headers.cd_sha256 # NoDigest THEN <<"sha-256", headers.cd_sha256>>
    ELSE IF headers.cd_sha512 # NoDigest THEN <<"sha-512", headers.cd_sha512>>
    ELSE IF headers.cd_md5 # NoDigest THEN <<"md5", headers.cd_md5>>
    ELSE NoIntegrity

Mut_get_integrity_check(resp) ==
    IF resp.headers.etag # NoDigest THEN <<"md5", resp.headers.etag>>
    ELSE IF resp.headers.content_md5 # NoDigest THEN <<"md5", resp.headers.content_md5>>
    ELSE _parse_content_digest(resp.headers)

\* _get_integrity_check: Content-Digest, then Content-MD5, then an MD5-shaped ETag
_get_integrity_check(resp) ==
    LET parsed == _parse_content_digest(resp.headers)
    IN  IF parsed # NoIntegrity THEN parsed
        ELSE IF resp.headers.content_md5 # NoDigest
             THEN <<"md5", resp.headers.content_md5>>
        ELSE IF resp.headers.etag # NoDigest THEN <<"md5", resp.headers.etag>>
        ELSE NoIntegrity

\* _parse_content_range_total
_parse_content_range_total(resp) == resp.total

-----------------------------------------------------------------------------
(* download_image_to_file *)

MutStartDownload(file) ==
    [file |-> file, existing_size |-> IF file.exists THEN getsize(file.data) ELSE 0]

\* the start of download_image_to_file: a file below MIN_IMAGE_SIZE is removed and
\* the download starts over; a larger one is resumed from its size
StartDownload(file) ==
    IF file.exists /\ getsize(file.data) >= MIN_IMAGE_SIZE
    THEN [file |-> file, existing_size |-> getsize(file.data)]
    ELSE [file |-> IF file.exists THEN _delete_partial_file(file) ELSE file,
          existing_size |-> 0]

\* the request of one attempt: a Range header from existing_size when it is positive
RangeStart(existing_size) == IF existing_size > 0 THEN existing_size ELSE NoTotal

Outcome(kind, file, existing_size, skip, why) ==
    [kind |-> kind, file |-> file, existing_size |-> existing_size, skip |-> skip,
     why |-> why]

\* the except clause of the retry loop: the partial file is removed; why names the
\* RequestException that was raised
RetryOutcome(file, why) == Outcome("retry", _delete_partial_file(file), 0, FALSE, why)

MutVerifyOutcome(written, existing_size, resp) ==
    IF resp.status = 206
    THEN Outcome("true", written, existing_size, FALSE, "")
    ELSE LET integrity == _get_integrity_check(resp)
         IN  IF integrity # NoIntegrity
                /\ ~_verify_file_integrity(written, integrity[1], integrity[2])
             THEN RetryOutcome(written, "integrity")
             ELSE Outcome("true", written, existing_size, FALSE, "")

\* the check after the body was written: the size against the Content-Range total
\* on a 206, the hash against the integrity header otherwise
VerifyOutcome(written, existing_size, resp) ==
    IF resp.status = 206
    THEN LET total == _parse_content_range_total(resp)
         IN  IF total # NoTotal /\ getsize(written.data) # total
             THEN RetryOutcome(written, "size")
             ELSE Outcome("true", written, existing_size, FALSE, "")
    ELSE LET integrity == _get_integrity_check(resp)
         IN  IF integrity # NoIntegrity
                /\ ~_verify_file_integrity(written, integrity[1], integrity[2])
             THEN RetryOutcome(written, "integrity")
             ELSE Outcome("true", written, existing_size, FALSE, "")

MutGone(resp) == resp.status = 404

\* line 843: resp.status_code in (404, 410)
Gone(resp) == resp.status \in {404, 410}

\* the body of the retry loop for one response.  kind: "true" / "false" (returned),
\* "retry" (a RequestException was caught), "raise" (an OSError left the function)
DownloadAttempt(file, existing_size, resp) ==
    IF resp.fault = "get" THEN RetryOutcome(file, "get")
    ELSE IF Gone(resp)
    THEN Outcome("false", _delete_partial_file(file), existing_size, TRUE, "")
    ELSE IF resp.status >= 400 THEN RetryOutcome(file, "status")
    ELSE IF ~resp.image THEN Outcome("false", file, existing_size, FALSE, "")
    ELSE LET append == existing_size > 0 /\ resp.status = 206
             base == IF append THEN file ELSE _delete_partial_file(file)
             size0 == IF append THEN existing_size ELSE 0
             written == FileOf(base.data \o resp.body)
         IN  CASE resp.fault = "open"   -> Outcome("raise", base, size0, FALSE, "")
               [] resp.fault = "write"  -> Outcome("raise", written, size0, FALSE, "")
               [] resp.fault = "stream" -> RetryOutcome(written, "stream")
               [] OTHER                 -> VerifyOutcome(written, size0, resp)

RECURSIVE RetryLoop(_, _, _, _)
\* the for loop over the attempts; resps[i] answers attempt i
RetryLoop(file, existing_size, resps, attempt) ==
    IF attempt > Len(resps)
    THEN [ret |-> "false", file |-> _delete_partial_file(file), skip |-> FALSE,
          requests |-> Len(resps), exhausted |-> TRUE]
    ELSE LET o == DownloadAttempt(file, existing_size, resps[attempt])
         IN  IF o.kind = "retry"
             THEN RetryLoop(o.file, o.existing_size, resps, attempt + 1)
             ELSE [ret |-> o.kind, file |-> o.file, skip |-> o.skip,
                   requests |-> attempt, exhausted |-> FALSE]

\* download_image_to_file(url, filepath, config) with source.max_retries = Len(resps):
\* ret is "true", "false" or "raise"; file is what is left at filepath
download_image_to_file(file, resps) ==
    LET s == StartDownload(file)
    IN  RetryLoop(s.file, s.existing_size, resps, 1)

-----------------------------------------------------------------------------
(* The download specification: one call of download_image_to_file, attempt by     *)
(* attempt, for every file found at the destination and every response.           *)

\* no response read yet
NoResponse == Response(0, FALSE, <<>>, NoTotal, NoHeaders, "none")

InitialFiles == {NoFile} \cup {FileOf(d) : d \in SeqsUpTo(BlockValues, MaxPartialBlocks)}

IdlePass ==
    /\ pc = "off"
    /\ now = 0
    /\ deadline = 0
    /\ fs = {}
    /\ queues = <<>>
    /\ codes = <<>>
    /\ loop = <<>>
    /\ stats = <<>>
    /\ upstream = <<>>
    /\ cfg = <<>>
    /\ hist = <<>>

DlInit ==
    /\ \E f \in InitialFiles, r \in 1..MaxRetries :
          dl = [pc |-> "start", file |-> f, file0 |-> f, existing_size |-> 0,
                attempt |-> 0, retries |-> r, ret |-> "none", skip |-> FALSE,
                range |-> NoTotal, resp |-> NoResponse, appended |-> FALSE,
                why |-> "", gone |-> FALSE, requests |-> 0, sleeps |-> 0]
    /\ lg = <<>>
    /\ rl = <<>>
    /\ IdlePass
    /\ rt = <<>>
    /\ sch = <<>>
    /\ sv = <<>>
    /\ ov = <<>>
    /\ wr = <<>>
    /\ sa = <<>>

\* lines 822-827: the look at the destination before the first attempt
DlStart ==
    /\ dl.pc = "start"
    /\ LET s == StartDownload(dl.file)
       IN  dl' = [dl EXCEPT !.pc = "loop", !.file = s.file,
                            !.existing_size = s.existing_size, !.attempt = 1]
    /\ UNCHANGED <<passVars, callVars>>

\* lines 829-933: one attempt of the retry loop, answered by resp
DlAttempt ==
    /\ dl.pc = "loop"
    /\ dl.attempt <= dl.retries
    /\ \E resp \in Responses :
          LET o == DownloadAttempt(dl.file, dl.existing_size, resp)
          IN  dl' = [dl EXCEPT
                        !.file = o.file,
                        !.existing_size = o.existing_size,
                        !.range = IF o.kind = "retry" THEN NoTotal
                                  ELSE RangeStart(dl.existing_size),
                        !.resp = IF o.kind = "retry" THEN NoResponse ELSE resp,
                        !.appended = (o.kind # "retry" /\ dl.existing_size > 0
                                      /\ resp.status = 206 /\ resp.image
                                      /\ resp.fault \notin {"get", "open"}),
                        !.skip = o.skip,
                        !.gone = dl.gone \/ (resp.fault # "get" /\ resp.status \in {404, 410}),
                        !.why = IF o.kind = "retry" THEN o.why ELSE dl.why,
                        !.requests = @ + 1,
                        \* lines 931-933: time.sleep(delay) when attempt < retries
                        !.sleeps = IF o.kind = "retry" /\ dl.attempt < dl.retries
                                   THEN @ + 1 ELSE @,
                        !.attempt = IF o.kind = "retry" THEN dl.attempt + 1 ELSE dl.attempt,
                        !.pc = IF o.kind = "retry" THEN "loop" ELSE "done",
                        !.ret = IF o.kind = "retry" THEN "none" ELSE o.kind]
    /\ UNCHANGED <<passVars, callVars>>

\* lines 935-937: every attempt failed
DlExhausted ==
    /\ dl.pc = "loop"
    /\ dl.attempt > dl.retries
    /\ dl' = [dl EXCEPT !.pc = "done", !.ret = "false",
                        !.file = _delete_partial_file(dl.file)]
    /\ UNCHANGED <<passVars, callVars>>

DlNext == DlStart \/ DlAttempt \/ DlExhausted

SpecDownload == DlInit /\ [][DlNext]_vars

-----------------------------------------------------------------------------
(* Camera names and archive paths *)

\* characters of the camera names of the model
UpperCase == {"N"}

LowerCase == {"n", "c", "a", "m", "u", "r", "e", "t"}

Digits == {"0", "1"}

\* str.lower on one character
Lower(c) == IF c = "N" THEN "n" ELSE c

\* str.isalnum on one character
IsAlnum(c) == c \in UpperCase \cup LowerCase \cup Digits

\* lines 45-46: lowercase, spaces and unsafe characters to underscores
SafeChar(c) ==
    LET l == Lower(c)
    IN  IF l = " " THEN "_" ELSE IF IsAlnum(l) \/ l = "_" THEN l ELSE "_"

RECURSIVE Collapse(_)
\* lines 48-49: runs of underscores collapse to one
Collapse(s) ==
    IF Len(s) < 2 THEN s
    ELSE IF s[1] = "_" /\ s[2] = "_" THEN Collapse(Tail(s))
    ELSE <<s[1]>> \o Collapse(Tail(s))

RECURSIVE StripLeft(_)
StripLeft(s) == IF s # <<>> /\ Head(s) = "_" THEN StripLeft(Tail(s)) ELSE s

RECURSIVE StripRight(_)
StripRight(s) ==
    IF s # <<>> /\ s[Len(s)] = "_" THEN StripRight(SubSeq(s, 1, Len(s) - 1)) ELSE s

\* _sanitize_camera_name(name, fallback); the empty sequence is no name (None or "")
_sanitize_camera_name(name, fallback) ==
    IF name = <<>> THEN fallback
    ELSE LET safe == StripRight(StripLeft(Collapse([i \in 1..Len(name) |-> SafeChar(name[i])])))
         IN  IF safe # <<>> THEN safe ELSE fallback

\* str(index) for the camera indices of the model
IndexStr(index) == IF index = 0 THEN "0" ELSE "1"

\* f"cam_{cam_index}"
CamFallback(index) == <<"c", "a", "m", "_", IndexStr(index)>>

\* "current"
CurrentFallback == <<"c", "u", "r", "r", "e", "n", "t">>

\* str.upper on the airport codes of the model
Upper(code) == IF code = "ka" THEN "KA" ELSE IF code = "kb" THEN "KB" ELSE code

\* no camera index in a file name
NoCam == -1

\* dt.strftime("%Y"), ("%m"), ("%d"): the date directories, one per day
DayOf(ts) == ts \div SECONDS_PER_DAY

\* os.path.basename(urlparse(url).path) or "image"; a URL is the list of its path segments
UrlBasename(url) == IF url[Len(url)] = "" THEN "image" ELSE url[Len(url)]

\* a path below output_dir: AIRPORT/YYYY/MM/DD/camera/filename.  The file name is
\* "{stamp}_{cam}.jpg" (kind "hist"), "{stamp as YYYYMMDD_HHMMSS}_{base}" (kind "cur")
\* or "metadata.json" directly below AIRPORT (kind "meta")
Path(airport, day, slug, kind, stamp, cam, base) ==
    [airport |-> airport, day |-> day, slug |-> slug, kind |-> kind, stamp |-> stamp,
     cam |-> cam, base |-> base]

MutHistoryPath(airport_code, cam_index, frame_ts, camera_name) ==
    Path(Upper(airport_code), DayOf(frame_ts),
         _sanitize_camera_name(camera_name, CamFallback(cam_index)),
         "hist", frame_ts, 0, "")

\* save_history_image_from_url, lines 1007-1026: the path of a history frame
HistoryPath(airport_code, cam_index, frame_ts, camera_name) ==
    Path(Upper(airport_code), DayOf(frame_ts),
         _sanitize_camera_name(camera_name, CamFallback(cam_index)),
         "hist", frame_ts, cam_index, "")

\* save_image_from_url, lines 1124-1144: the path of a current snapshot
CurrentPath(url, airport_code, timestamp, camera_name) ==
    Path(Upper(airport_code), DayOf(timestamp),
         _sanitize_camera_name(camera_name, CurrentFallback),
         "cur", timestamp, NoCam, UrlBasename(url))

\* setup_airport_archive, line 455: the metadata snapshot of an airport
MetadataPath(airport_code) ==
    Path(Upper(airport_code), NoCam, <<>>, "meta", 0, NoCam, "metadata.json")

-----------------------------------------------------------------------------
(* The archive tree *)

Paths(tree) == {f.path : f \in tree}

\* the file at a path, as download_image_to_file sees it
FileAt(tree, path) ==
    IF path \in Paths(tree)
    THEN FileOf((CHOOSE f \in tree : f.path = path).data)
    ELSE NoFile

Remove(tree, path) == {f \in tree : f.path # path}

\* the tree with the file at path replaced by file (removed when file is NoFile)
Store(tree, path, file, mtime) ==
    IF file.exists
    THEN Remove(tree, path) \cup {[path |-> path, data |-> file.data, mtime |-> mtime]}
    ELSE Remove(tree, path)

\* the mtime of the file at path
MtimeAt(tree, path) == (CHOOSE f \in tree : f.path = path).mtime

-----------------------------------------------------------------------------
(* Saving one frame *)

\* what the file system and the network do to one save: makedirs failing, the
\* responses to the attempts of the download, chmod/utime failing
SaveIO(mkdir_fails, resps, chmod_fails) ==
    [mkdir_fails |-> mkdir_fails, resps |-> resps, chmod_fails |-> chmod_fails]

\* the tree after download_image_to_file left `file` at path: a file whose content
\* changed was written at time t
AfterDownload(tree, path, file, t) ==
    IF file = FileAt(tree, path) THEN tree ELSE Store(tree, path, file, t)

\* lines 1019-1045 and 1135-1157, common to both save functions: makedirs, the
\* download to filepath, chmod and utime to the capture time.  ret: "saved" (the path
\* is returned), "none" (None is returned) or "raise" (an OSError left the function)
SaveFromUrl(tree, path, mtime, io, t) ==
    IF io.mkdir_fails
    THEN [tree |-> tree, ret |-> "none", path |-> path, requests |-> 0, failed |-> FALSE]
    ELSE LET d == download_image_to_file(FileAt(tree, path), io.resps)
             tree1 == AfterDownload(tree, path, d.file, t)
         IN  CASE d.ret = "raise" ->
                    [tree |-> tree1, ret |-> "raise", path |-> path,
                     requests |-> d.requests, failed |-> FALSE]
               [] d.ret = "false" ->
                    [tree |-> tree1, ret |-> "none", path |-> path,
                     requests |-> d.requests, failed |-> d.exhausted]
               [] OTHER ->
                    IF io.chmod_fails
                    THEN [tree |-> Remove(tree1, path), ret |-> "none", path |-> path,
                          requests |-> d.requests, failed |-> FALSE]
                    ELSE [tree |-> Store(tree1, path, d.file, mtime), ret |-> "saved",
                          path |-> path, requests |-> d.requests, failed |-> FALSE]

\* save_history_image_from_url(url, airport_code, cam_index, frame_ts, config, camera_name)
save_history_image_from_url(tree, airport_code, cam_index, frame_ts, camera_name, io, t) ==
    SaveFromUrl(tree, HistoryPath(airport_code, cam_index, frame_ts, camera_name),
                frame_ts, io, t)

\* save_image_from_url(url, airport_code, config, timestamp, camera_name)
save_image_from_url(tree, url, airport_code, timestamp, camera_name, io, t) ==
    SaveFromUrl(tree, CurrentPath(url, airport_code, timestamp, camera_name),
                timestamp, io, t)

-----------------------------------------------------------------------------
(* The upstream API and the configuration *)

\* history frames the busiest camera of the model serves
MaxFrames == 2

\* the time the first pass starts at
StartTime == 3 * SECONDS_PER_DAY

\* the time the save of one image takes
StepSeconds == 30

SECONDS_PER_MINUTE == 60

DEFAULT_INTERVAL_MINUTES == 15

NoDeadline == -1

NoFrame == -1

NoUrl == <<>>

\* line 1402: the sort key 2**63 of a current-snapshot item, above every timestamp
SentinelKey == 2147483647

\* the capture timestamps of the history frames: the first is one second older than
\* one day at StartTime, the others follow second by second
FrameTs(i) == StartTime - SECONDS_PER_DAY - 2 + i

\* a webcam of the webcams API: index, name, history_enabled with a history_url and
\* the frames the history API lists for it, and the current-image URL
Webcam(index, name, history, frames, url) ==
    [index |-> index, name |-> name, history |-> history, frames |-> frames, url |-> url]

\* an airport of the airport list: its code, its webcams, and the image URLs the page
\* scrape of fetch_image_urls finds
Airport(code, webcams, scraped) == [code |-> code, webcams |-> webcams, scraped |-> scraped]

HistoryCam(index, name, n) ==
    Webcam(index, name, TRUE, {FrameTs(i) : i \in 1..n}, <<"cam", "image">>)

CurrentCam(index, name, url) == Webcam(index, name, FALSE, {}, url)

\* what the API serves, unchanged from pass to pass
Upstreams ==
    \* a backlog at one airport, a single frame at the other
    {<<Airport("ka", <<HistoryCam(0, <<"N", " ", "1">>, MaxFrames)>>, <<>>),
       Airport("KB", <<HistoryCam(0, <<>>, 1)>>, <<>>)>>}
    \cup
    \* a camera with history and one without; an airport without webcams API
    {<<Airport("ka", <<HistoryCam(0, <<"N">>, 2), CurrentCam(1, <<"n">>, <<"cam1", "1.jpg">>)>>,
               <<>>),
       Airport("KB", <<>>, <<<<"img", "webcam.jpg">>>>)>>}
    \cup
    \* two cameras without history and without name; two cameras with history
    {<<Airport("ka", <<CurrentCam(0, <<>>, <<"cam0", "image">>),
                       CurrentCam(1, <<"-">>, <<"cam1", "image">>)>>, <<>>),
       Airport("KB", <<HistoryCam(0, <<"N">>, 2), HistoryCam(1, <<"n">>, 1)>>, <<>>)>>}

\* the configuration snapshot: source.use_history_api, source.max_retries,
\* schedule.job_timeout_minutes, archive.retention_days, the byte budget
\* int(retention_max_gb * BYTES_PER_GIB), airports.archive_all and airports.selected
Config(use_history, max_retries, timeout_min, days, max_bytes, archive_all, selected) ==
    [use_history |-> use_history, max_retries |-> max_retries,
     job_timeout_minutes |-> timeout_min, retention_days |-> days,
     retention_max_bytes |-> max_bytes, archive_all |-> archive_all,
     selected |-> selected]

\* source.max_retries of the pass specification
PassRetries == 2

Configs ==
    {Config(TRUE, PassRetries, 0, 0, 0, TRUE, {}),
     Config(TRUE, PassRetries, 1, 1, 0, FALSE, {"KA", "kb"}),
     Config(TRUE, PassRetries, 0, 0, 3 * MIN_IMAGE_SIZE, FALSE, {"KA"}),
     Config(FALSE, PassRetries, 0, 0, 0, TRUE, {}),
     Config(TRUE, PassRetries, 0, 0, 0, FALSE, {})}

\* airport.get(key): an airport is a record that has the keys the API sent; None and
\* the empty string, both false in a condition, are the empty string here
Get(airport, key) == IF key \in DOMAIN airport THEN airport[key] ELSE ""

Mut_airport_code(airport) ==
    IF "code" \in DOMAIN airport THEN airport["code"]
    ELSE IF "id" \in DOMAIN airport THEN airport["id"]
    ELSE Get(airport, "icao")

\* lines 262-264: airport.get("code") or airport.get("id") or airport.get("icao") or ""
_airport_code(airport) ==
    IF Get(airport, "code") # "" THEN Get(airport, "code")
    ELSE IF Get(airport, "id") # "" THEN Get(airport, "id")
    ELSE IF Get(airport, "icao") # "" THEN Get(airport, "icao")
    ELSE ""

RECURSIVE FilterAirports(_, _)
\* line 244: [a for a in all_airports if _airport_code(a).upper() in selected_codes]
FilterAirports(all_airports, selected_codes) ==
    IF all_airports = <<>> THEN <<>>
    ELSE IF Upper(_airport_code(Head(all_airports))) \in selected_codes
    THEN <<Head(all_airports)>> \o FilterAirports(Tail(all_airports), selected_codes)
    ELSE FilterAirports(Tail(all_airports), selected_codes)

\* select_airports(all_airports, config), lines 223-259
select_airports(all_airports, config) ==
    IF config.archive_all THEN all_airports
    ELSE LET selected_codes == {Upper(c) : c \in config.selected}
         IN  IF selected_codes = {} THEN <<>>
             ELSE FilterAirports(all_airports, selected_codes)

\* _webcam_to_image_url: the current-image URL of a webcam, NoUrl when it has none
_webcam_to_image_url(webcam) == webcam.url

-----------------------------------------------------------------------------
(* The pending queues *)

\* the file name parses as "{int}_{int}" with an image extension (lines 598-606):
\* every history file, and a current snapshot whose URL basename is "{int}.jpg"
HasFrameName(path) ==
    \/ path.kind = "hist"
    \/ path.kind = "cur" /\ path.base \in {"0.jpg", "1.jpg"}

\* the files _get_existing_frames looks at: below the airport, in a camera directory
ScannedFiles(tree, airport_code) ==
    {f \in tree : f.path.airport = Upper(airport_code) /\ HasFrameName(f.path)}

Mut_get_existing_frames(tree, airport_code) == {}

\* _get_existing_frames: the (timestamp, cam_index) pairs of the history files of at
\* least MIN_IMAGE_SIZE bytes; a snapshot name parses to its 14-digit date, which is
\* the timestamp of no frame
_get_existing_frames(tree, airport_code) ==
    {<<f.path.stamp, f.path.cam>> :
        f \in {g \in ScannedFiles(tree, airport_code) :
                  g.path.kind = "hist" /\ getsize(g.data) >= MIN_IMAGE_SIZE}}

\* lines 608-610: the scan removes the files below MIN_IMAGE_SIZE
AfterScan(tree, airport_code) ==
    tree \ {f \in ScannedFiles(tree, airport_code) : getsize(f.data) < MIN_IMAGE_SIZE}

\* a pending item: the webcam and the frame to fetch (NoFrame: the current image)
Item(webcam, frame) == [webcam |-> webcam, frame |-> frame]

MutSortKey(item) == item.frame

\* line 1402: the sort key of an item
SortKey(item) == IF item.frame # NoFrame THEN item.frame ELSE SentinelKey

RECURSIVE InsertSorted(_, _)
\* the place of x in a sorted list, behind the items of the same key (list.sort is stable)
InsertSorted(sorted, x) ==
    IF sorted = <<>> THEN <<x>>
    ELSE IF SortKey(Head(sorted)) <= SortKey(x)
    THEN <<Head(sorted)>> \o InsertSorted(Tail(sorted), x)
    ELSE <<x>> \o sorted

MutSortItems(items) == items

RECURSIVE SortItems(_)
\* list.sort(key=...)
SortItems(items) ==
    IF items = <<>> THEN <<>>
    ELSE InsertSorted(SortItems(SubSeq(items, 1, Len(items) - 1)), items[Len(items)])

RECURSIVE SortedBy(_)
\* a set of timestamps as the list fetch_history_frames returns, oldest first
SortedBy(frames) ==
    IF frames = {} THEN <<>>
    ELSE LET oldest == CHOOSE t \in frames : \A u \in frames : t <= u
         IN  <<oldest>> \o SortedBy(frames \ {oldest})

RECURSIVE PendingOfFrames(_, _, _)
\* lines 1395-1398: the frames of a webcam that are not in the archive
PendingOfFrames(webcam, frames, existing) ==
    IF frames = <<>> THEN <<>>
    ELSE (IF <<Head(frames), webcam.index>> \notin existing
          THEN <<Item(webcam, Head(frames))>> ELSE <<>>)
         \o PendingOfFrames(webcam, Tail(frames), existing)

RECURSIVE PendingOfWebcams(_, _, _)
\* lines 1391-1400: the pending items of the webcams of an airport, camera by camera;
\* history_up: the history API answers
PendingOfWebcams(webcams, existing, history_up) ==
    IF webcams = <<>> THEN <<>>
    ELSE LET webcam == Head(webcams)
         IN  (IF webcam.history
              THEN PendingOfFrames(webcam,
                                   IF history_up THEN SortedBy(webcam.frames) ELSE <<>>,
                                   existing)
              ELSE <<Item(webcam, NoFrame)>>)
             \o PendingOfWebcams(Tail(webcams), existing, history_up)

\* setup_airport_archive: metadata.json is written (unless the write fails)
AfterSetup(tree, airport_code, meta_fails, t) ==
    IF meta_fails THEN tree
    ELSE Store(tree, MetadataPath(airport_code), FileOf(<<0>>), t)

RECURSIVE CollectLoop(_, _, _, _, _)
\* _collect_pending_per_airport, the loop over the airports.  net: the airports whose
\* webcams API answers, those whose history API answers, whether metadata.json
\* cannot be written
CollectLoop(airports, tree, acc, net, t) ==
    IF airports = <<>> THEN [tree |-> tree] @@ acc
    ELSE LET airport == Head(airports)
             code == _airport_code(airport)
             webcams == IF code \in net.webcams_up THEN airport.webcams ELSE <<>>
             tree1 == AfterSetup(tree, code, net.meta_fails, t)
         IN  IF webcams = <<>>
             THEN CollectLoop(Tail(airports), tree1, acc, net, t)
             ELSE LET existing == _get_existing_frames(tree1, code)
                      tree2 == AfterScan(tree1, code)
                      pending == SortItems(PendingOfWebcams(webcams, existing,
                                                            code \in net.history_up))
                  IN  CollectLoop(Tail(airports), tree2,
                                  [queues |-> IF pending # <<>>
                                              THEN acc.queues @@ (code :> pending)
                                              ELSE acc.queues,
                                   order |-> IF pending # <<>>
                                             THEN Append(acc.order, code) ELSE acc.order,
                                   by_code |-> acc.by_code \cup {code}],
                                  net, t)

\* _collect_pending_per_airport: queues, the order of their keys, airport_by_code
_collect_pending_per_airport(airports, tree, net, t) ==
    CollectLoop(airports, tree, [queues |-> <<>>, order |-> <<>>, by_code |-> {}], net, t)

-----------------------------------------------------------------------------
(* Retention *)

MutRetentionFiles(tree) == tree

\* the files retention looks at: all but metadata.json
RetentionFiles(tree) == {f \in tree : f.path.kind # "meta"}

RECURSIVE SumSizes(_)
SumSizes(files) ==
    IF files = {} THEN 0
    ELSE LET f == CHOOSE g \in files : TRUE
         IN  getsize(f.data) + SumSizes(files \ {f})

RECURSIVE MutRemoveOldest(_, _, _, _)
MutRemoveOldest(files, to_remove, removed_bytes, stuck) ==
    IF files = {} \/ removed_bytes >= to_remove THEN {}
    ELSE LET newest == CHOOSE f \in files : \A g \in files : f.mtime >= g.mtime
         IN  IF newest.path \in stuck
             THEN MutRemoveOldest(files \ {newest}, to_remove, removed_bytes, stuck)
             ELSE {newest} \cup MutRemoveOldest(files \ {newest}, to_remove,
                                     removed_bytes + getsize(newest.data), stuck)

RECURSIVE RemoveOldest(_, _, _, _)
\* lines 1339-1347: the files oldest mtime first, removed until the bytes removed
\* cover to_remove.  Files of one mtime come in the order os.walk lists them, which
\* CHOOSE fixes.  os.remove raises OSError for the paths in stuck: such a file stays
\* and its size is not added to removed_bytes
RemoveOldest(files, to_remove, removed_bytes, stuck) ==
    IF files = {} \/ removed_bytes >= to_remove THEN {}
    ELSE LET oldest == CHOOSE f \in files : \A g \in files : f.mtime <= g.mtime
         IN  IF oldest.path \in stuck
             THEN RemoveOldest(files \ {oldest}, to_remove, removed_bytes, stuck)
             ELSE {oldest} \cup RemoveOldest(files \ {oldest}, to_remove,
                                     removed_bytes + getsize(oldest.data), stuck)

MutAgePhaseZero(tree, config, t) ==
    {f \in RetentionFiles(tree) : f.mtime < t - config.retention_days * SECONDS_PER_DAY}

MutAgePhase(tree, config, t) ==
    IF config.retention_days > 0
    THEN {f \in RetentionFiles(tree) :
             f.mtime <= t - config.retention_days * SECONDS_PER_DAY}
    ELSE {}

\* lines 1303-1323, phase 1: the files whose mtime is before the cutoff
AgePhase(tree, config, t) ==
    IF config.retention_days > 0
    THEN {f \in RetentionFiles(tree) :
             f.mtime < t - config.retention_days * SECONDS_PER_DAY}
    ELSE {}

\* lines 1325-1347, phase 2: the oldest files that cover the bytes above the budget
SizePhase(tree, config, stuck) ==
    LET to_remove == SumSizes(RetentionFiles(tree)) - config.retention_max_bytes
    IN  IF config.retention_max_bytes > 0 /\ to_remove > 0
        THEN RemoveOldest(RetentionFiles(tree), to_remove, 0, stuck)
        ELSE {}

MutCountDeleted(tried, removed) == Cardinality(tried)

\* lines 1318-1320: deleted += 1 follows os.remove, which raises when it fails
CountDeleted(tried, removed) == Cardinality(removed)

\* apply_retention(config) at time t, with os.remove failing for the paths in stuck:
\* the tree left, the tree between the two phases and the number of files deleted
apply_retention(tree, config, t, stuck) ==
    LET aged == AgePhase(tree, config, t)
        removed == {f \in aged : f.path \notin stuck}
        tree1 == tree \ removed
        sized == SizePhase(tree1, config, stuck)
    IN  [tree |-> tree1 \ sized, mid |-> tree1,
         deleted |-> CountDeleted(aged, removed) + Cardinality(sized)]

-----------------------------------------------------------------------------
(* One archive pass: run_archive *)

\* deadlines the caller passes: none, one already past, one some steps ahead
MaxBudget == 2

NewStats ==
    [airports_processed |-> 0, images_fetched |-> 0, images_saved |-> 0, errors |-> 0,
     timed_out |-> FALSE]

\* the responses of the image server in a pass: a complete image, a server error, a
\* body whose write fails with OSError
PassGood == Response(200, TRUE, <<0, 0>>, NoTotal, NoHeaders, "none")

PassError == Response(500, FALSE, <<>>, NoTotal, NoHeaders, "none")

PassResponses ==
    {PassGood,
     PassError,
     Response(200, TRUE, <<0, 0>>, NoTotal, NoHeaders, "write")}

\* the responses to the attempts of one download: only a server error is retried,
\* so what follows another response is never read
PassResponseSeqs(n) ==
    {r \in [1..n -> PassResponses] :
        \A i \in 1..n, j \in 1..n : (i < j /\ r[i] # PassError) => r[j] = PassGood}

\* makedirs fails, or the download runs
PassIOs(n) ==
    {SaveIO(TRUE, <<>>, FALSE)} \cup {SaveIO(FALSE, r, FALSE) : r \in PassResponseSeqs(n)}

MutPastDeadline(dline, t) == FALSE

\* deadline is not None and time.time() >= deadline
PastDeadline(dline, t) == dline # NoDeadline /\ t >= dline

DeadlineReached(t) == PastDeadline(deadline, t)

MutTimedOut(dline, qs) == dline # NoDeadline

\* line 1664: deadline is not None and any(queues.values())
TimedOut(dline, qs) == dline # NoDeadline /\ \E c \in DOMAIN qs : qs[c] # <<>>

\* the locals of run_archive and the loops it runs, before the pass
NoLocals ==
    [airports |-> <<>>, by_code |-> {}, visit |-> <<>>, progress |-> FALSE,
     rest |-> <<>>, urls |-> <<>>, code |-> "", run_ts |-> 0, rr_ts |-> 0]

\* the history of a pass: run (first or second pass), q0 (the queues as collected),
\* rounds (rounds started), popped (the items popped, with airport and round), late
\* (an item was popped at or after the deadline), rr_end (how the round-robin ended),
\* retention (calls of apply_retention), exhausted (downloads that ran out of
\* retries), raised (an OSError left a save), fetched and saved (the frames requested
\* and stored), present and files (the archive when the second pass started), past
\* (the pass was called with a deadline already past), steady (the upstream answered
\* every listing), clean (the first pass was a CleanPass), empty_list (the airport
\* list of the pass was empty), tree0 (the archive at the call), late_current (a
\* download of _run_archive_current_only started at or after the deadline), skipped
\* (the frames the upstream listed that the queues left out as already archived),
\* complete (the frames the first pass downloaded and saved)
NoHist ==
    [run |-> 1, q0 |-> <<>>, rounds |-> 0, popped |-> <<>>, late |-> FALSE,
     rr_end |-> "none", retention |-> 0, exhausted |-> 0, raised |-> FALSE,
     fetched |-> {}, saved |-> {}, present |-> {}, files |-> {}, past |-> FALSE,
     steady |-> TRUE, clean |-> FALSE, empty_list |-> FALSE, tree0 |-> {},
     late_current |-> FALSE, skipped |-> {}, complete |-> {}]

Init ==
    /\ dl = <<>>
    /\ pc = "idle"
    /\ now = StartTime
    /\ deadline = NoDeadline
    /\ fs = {}
    /\ queues = <<>>
    /\ codes = <<>>
    /\ loop = NoLocals
    /\ stats = NewStats
    /\ upstream \in Upstreams
    /\ cfg \in Configs
    /\ hist = NoHist
    /\ rt = <<>>
    /\ sch = <<>>
    /\ sv = <<>>
    /\ ov = <<>>
    /\ wr = <<>>
    /\ sa = <<>>
    /\ lg = <<>>
    /\ rl = <<>>

\* the identity of a frame: airport code, camera index, capture timestamp
Ident(airport_code, cam_index, ts) == <<Upper(airport_code), cam_index, ts>>

AirportCodes == {upstream[i].code : i \in 1..Len(upstream)}

MutListEmpty(all_airports) == FALSE

\* line 1625: not all_airports
ListEmpty(all_airports) == all_airports = <<>>

\* lines 1595-1651: the start of run_archive, called with deadline d; listed: the
\* airport list could be fetched
RunArchive ==
    /\ pc = "idle"
    /\ \E d \in {NoDeadline, 0} \cup {now + k * StepSeconds : k \in 1..MaxBudget},
          listed \in BOOLEAN :
          LET dline == IF d = NoDeadline /\ cfg.job_timeout_minutes > 0
                       THEN now + cfg.job_timeout_minutes * SECONDS_PER_MINUTE
                       ELSE d
              all_airports == IF listed THEN upstream ELSE <<>>
              airports == select_airports(all_airports, cfg)
              past == PastDeadline(dline, now)
              kept == apply_retention(fs, cfg, now, {})
          IN  /\ deadline' = dline
              /\ hist' = [hist EXCEPT !.past = (d # NoDeadline /\ d <= now),
                                      !.steady = @ /\ listed,
                                      !.empty_list = ~listed,
                                      !.tree0 = fs,
                                      !.retention = IF airports # <<>> /\ past
                                                    THEN @ + 1 ELSE @]
              /\ stats' = [NewStats EXCEPT
                              !.errors = IF ListEmpty(all_airports) THEN 1 ELSE 0,
                              !.timed_out = airports # <<>> /\ past]
              /\ fs' = IF airports # <<>> /\ past THEN kept.tree ELSE fs
              /\ pc' = IF airports = <<>> \/ past THEN "done"
                       ELSE IF cfg.use_history THEN "collect" ELSE "airports"
              /\ loop' = [NoLocals EXCEPT !.airports = airports, !.run_ts = now,
                                          !.rest = airports]
    /\ queues' = <<>>
    /\ codes' = <<>>
    /\ UNCHANGED <<dl, callVars, now, upstream, cfg>>

\* lines 1395-1398: the frames the history API lists for the webcams of the airports
\* that _get_existing_frames finds in the archive, which get no queue entry
SkippedFrames(airports, tree, net) ==
    UNION {LET airport == airports[i]
               code == _airport_code(airport)
               existing == _get_existing_frames(tree, code)
           IN  IF code \in net.webcams_up /\ code \in net.history_up
               THEN UNION {LET webcam == airport.webcams[k]
                           IN  IF webcam.history
                               THEN {Ident(code, webcam.index, f) :
                                        f \in {g \in webcam.frames :
                                                  <<g, webcam.index>> \in existing}}
                               ELSE {} : k \in 1..Len(airport.webcams)}
               ELSE {} : i \in 1..Len(airports)}

\* lines 1655-1662: the pending queues are collected
Collect ==
    /\ pc = "collect"
    /\ \E up \in {AirportCodes} \cup {AirportCodes \ {c} : c \in AirportCodes},
          hup \in {AirportCodes, {}} :
          LET net == [webcams_up |-> up, history_up |-> hup, meta_fails |-> FALSE]
              c == _collect_pending_per_airport(loop.airports, fs, net, now)
          IN  /\ fs' = c.tree
              /\ queues' = c.queues
              /\ codes' = c.order
              /\ loop' = [loop EXCEPT !.by_code = c.by_code, !.rr_ts = now]
              /\ stats' = [stats EXCEPT !.airports_processed = Cardinality(c.by_code)]
              /\ hist' = [hist EXCEPT !.q0 = c.queues,
                                      !.skipped = SkippedFrames(loop.airports, fs, net),
                                      !.steady = @ /\ up = AirportCodes
                                                   /\ hup = AirportCodes]
    /\ pc' = "round"
    /\ UNCHANGED <<dl, callVars, now, deadline, upstream, cfg>>

\* lines 1426-1430: the head of the while loop.  The round starts unless no airport
\* is left in rotation or the deadline is reached
RoundStart ==
    /\ pc = "round"
    /\ IF codes = <<>> \/ DeadlineReached(now)
       THEN /\ pc' = "after_rr"
            /\ hist' = [hist EXCEPT !.rr_end = IF codes = <<>> THEN "drained"
                                                ELSE "deadline"]
            /\ loop' = loop
       ELSE /\ pc' = "item"
            /\ hist' = [hist EXCEPT !.rounds = @ + 1]
            /\ loop' = [loop EXCEPT !.visit = codes, !.progress = FALSE]
    /\ UNCHANGED <<dl, callVars, now, deadline, fs, queues, codes, stats, upstream, cfg>>

\* lines 1431-1433: an airport whose queue is empty leaves the rotation
DropAirport ==
    /\ pc = "item"
    /\ loop.visit # <<>>
    /\ queues[Head(loop.visit)] = <<>>
    /\ codes' = SelectSeq(codes, LAMBDA c : c # Head(loop.visit))
    /\ loop' = [loop EXCEPT !.visit = Tail(@)]
    /\ UNCHANGED <<dl, callVars, pc, now, deadline, fs, queues, stats, upstream, cfg, hist>>

\* the save of one pending item (lines 1438-1462): None for a webcam without URL
SaveItem(tree, code, item, run_ts, io, t) ==
    IF item.frame # NoFrame
    THEN save_history_image_from_url(tree, code, item.webcam.index, item.frame,
                                     item.webcam.name, io, t)
    ELSE IF _webcam_to_image_url(item.webcam) # NoUrl
    THEN save_image_from_url(tree, _webcam_to_image_url(item.webcam), code, run_ts,
                             item.webcam.name, io, t)
    ELSE [tree |-> tree, ret |-> "skip", path |-> MetadataPath(code), requests |-> 0,
          failed |-> FALSE]

MutCounted(st, r) ==
    [st EXCEPT !.images_fetched = IF r.ret = "saved" THEN @ + 1 ELSE @,
               !.images_saved = IF r.ret # "skip" THEN @ + 1 ELSE @,
               !.errors = IF r.ret = "raise" THEN @ + 1 ELSE @]

\* the stats after one save
Counted(st, r) ==
    [st EXCEPT !.images_fetched = IF r.ret # "skip" THEN @ + 1 ELSE @,
               !.images_saved = IF r.ret = "saved" THEN @ + 1 ELSE @,
               !.errors = IF r.ret = "raise" THEN @ + 1 ELSE @]

\* the history after one save of the frame of identity id
Noted(h, id, r) ==
    [h EXCEPT !.exhausted = IF r.failed THEN @ + 1 ELSE @,
              !.raised = @ \/ r.ret = "raise",
              !.fetched = IF r.requests > 0 THEN @ \cup {<<h.run, id>>} ELSE @,
              !.saved = IF r.ret = "saved"
                        THEN @ \cup {[run |-> h.run, id |-> id, path |-> r.path]}
                        ELSE @]

MutAfterItem(ret) == IF ret = "raise" THEN "done" ELSE "item"

\* lines 1683-1685 and 1719: the exception that left the round-robin stage is caught
\* and logged by run_archive, which goes on to apply_retention; otherwise the for
\* loop goes on
AfterItem(ret) == IF ret = "raise" THEN "retention" ELSE "item"

\* lines 1434-1463: the oldest item of the airport is popped and processed.  An
\* OSError of the save leaves _run_archive_round_robin and is caught by run_archive
\* (lines 1683-1685)
ProcessItem ==
    /\ pc = "item"
    /\ loop.visit # <<>>
    /\ queues[Head(loop.visit)] # <<>>
    /\ \E io \in PassIOs(cfg.max_retries) :
          LET code == Head(loop.visit)
              item == Head(queues[code])
              ts == IF item.frame # NoFrame THEN item.frame ELSE loop.rr_ts
              r == SaveItem(fs, code, item, loop.rr_ts, io, now + StepSeconds)
          IN  /\ queues' = [queues EXCEPT ![code] = Tail(@)]
              /\ fs' = r.tree
              /\ stats' = Counted(stats, r)
              /\ now' = now + StepSeconds
              /\ hist' = [Noted(hist, Ident(code, item.webcam.index, ts), r) EXCEPT
                             !.popped = Append(@, [code |-> code, item |-> item,
                                                   round |-> hist.rounds]),
                             !.late = @ \/ DeadlineReached(now),
                             !.rr_end = IF r.ret = "raise" THEN "raised" ELSE @]
              /\ pc' = AfterItem(r.ret)
              /\ loop' = [loop EXCEPT !.visit = Tail(@), !.progress = TRUE]
    /\ UNCHANGED <<dl, callVars, deadline, codes, upstream, cfg>>

\* lines 1464-1465: the end of the for loop; the while loop goes on after progress
RoundEnd ==
    /\ pc = "item"
    /\ loop.visit = <<>>
    /\ pc' = IF loop.progress THEN "round" ELSE "after_rr"
    /\ hist' = [hist EXCEPT !.rr_end = IF loop.progress THEN @ ELSE "drained"]
    /\ UNCHANGED <<dl, callVars, now, deadline, fs, queues, codes, loop, stats, upstream, cfg>>

RECURSIVE WithoutWebcams(_, _)
\* lines 1666-1670: the selected airports that have no queue entry
WithoutWebcams(airports, by_code) ==
    IF airports = <<>> THEN <<>>
    ELSE (IF _airport_code(Head(airports)) \notin by_code THEN <<Head(airports)>> ELSE <<>>)
         \o WithoutWebcams(Tail(airports), by_code)

\* lines 1664-1671: after the round-robin returned
AfterRoundRobin ==
    /\ pc = "after_rr"
    /\ LET without == WithoutWebcams(loop.airports, loop.by_code)
       IN  /\ stats' = [stats EXCEPT
                           !.timed_out = @ \/ TimedOut(deadline, queues),
                           !.airports_processed = @ + Len(without)]
           /\ loop' = [loop EXCEPT !.rest = without]
    /\ pc' = "airports"
    /\ UNCHANGED <<dl, callVars, now, deadline, fs, queues, codes, upstream, cfg, hist>>

\* an image URL of the current-only loop, with the camera it came from
Target(url, name, index) == [url |-> url, name |-> name, index |-> index]

\* where _run_archive_current_only gets its URLs from: the webcams list, the URLs
\* fetch_image_urls extracts from the webcams API, or the page scrape
Sources == {"webcams", "api_urls", "scrape"}

RECURSIVE TargetsOf(_, _)
\* the URLs of the webcams that have one, with the camera name or without
TargetsOf(webcams, named) ==
    IF webcams = <<>> THEN <<>>
    ELSE LET webcam == Head(webcams)
         IN  (IF _webcam_to_image_url(webcam) # NoUrl
              THEN <<Target(_webcam_to_image_url(webcam),
                            IF named THEN webcam.name ELSE <<>>, webcam.index)>>
              ELSE <<>>)
             \o TargetsOf(Tail(webcams), named)

\* the URLs of the page scrape, numbered in page order
Scraped(airport) ==
    [i \in 1..Len(airport.scraped) |-> Target(airport.scraped[i], <<>>, i - 1)]

\* _run_archive_current_only, lines 1556-1579: the URLs it saves
CurrentTargets(airport, source) ==
    CASE source = "webcams" /\ airport.webcams # <<>> -> TargetsOf(airport.webcams, TRUE)
      [] source = "api_urls" /\ airport.webcams # <<>> -> TargetsOf(airport.webcams, FALSE)
      [] source = "scrape" -> Scraped(airport)
      [] OTHER -> <<>>

\* lines 1675-1681 and 1688-1717: the next airport of the current-only loops.  Without
\* the history API the deadline is checked before each airport and
\* setup_airport_archive writes metadata.json
NextAirport ==
    /\ pc = "airports"
    /\ loop.rest # <<>>
    /\ cfg.use_history \/ ~DeadlineReached(now)
    /\ \E source \in Sources :
          LET airport == Head(loop.rest)
              code == _airport_code(airport)
          IN  /\ loop' = [loop EXCEPT !.rest = Tail(@), !.code = code,
                                      !.urls = CurrentTargets(airport, source)]
              /\ fs' = IF cfg.use_history THEN fs
                       ELSE AfterSetup(fs, code, FALSE, now)
    /\ stats' = [stats EXCEPT !.airports_processed = IF cfg.use_history THEN @ ELSE @ + 1]
    /\ pc' = "urls"
    /\ UNCHANGED <<dl, callVars, now, deadline, queues, codes, upstream, cfg, hist>>

\* lines 1689-1695: without the history API the loop over the airports stops at the
\* deadline
StopAtDeadline ==
    /\ pc = "airports"
    /\ loop.rest # <<>>
    /\ ~cfg.use_history
    /\ DeadlineReached(now)
    /\ stats' = [stats EXCEPT !.timed_out = TRUE]
    /\ pc' = "retention"
    /\ UNCHANGED <<dl, callVars, now, deadline, fs, queues, codes, loop, upstream, cfg, hist>>

\* the loops over the airports are through
AirportsDone ==
    /\ pc = "airports"
    /\ loop.rest = <<>>
    /\ pc' = "retention"
    /\ UNCHANGED <<dl, callVars, now, deadline, fs, queues, codes, loop, stats, upstream, cfg, hist>>

\* lines 1559-1579: one URL of _run_archive_current_only is saved.  An OSError of the
\* save ends the airport (lines 1677-1683, 1715-1717)
SaveCurrent ==
    /\ pc = "urls"
    /\ loop.urls # <<>>
    /\ \E io \in PassIOs(cfg.max_retries) :
          LET target == Head(loop.urls)
              r == save_image_from_url(fs, target.url, loop.code, loop.run_ts,
                                       target.name, io, now + StepSeconds)
          IN  /\ fs' = r.tree
              /\ stats' = Counted(stats, r)
              /\ now' = now + StepSeconds
              /\ hist' = [Noted(hist, Ident(loop.code, target.index, loop.run_ts), r)
                             EXCEPT !.late_current = @ \/ DeadlineReached(now)]
              /\ loop' = [loop EXCEPT !.urls = IF r.ret = "raise" THEN <<>> ELSE Tail(@)]
    /\ UNCHANGED <<dl, callVars, pc, deadline, queues, codes, upstream, cfg>>

\* the URLs of the airport are through
UrlsDone ==
    /\ pc = "urls"
    /\ loop.urls = <<>>
    /\ pc' = "airports"
    /\ UNCHANGED <<dl, callVars, now, deadline, fs, queues, codes, loop, stats, upstream, cfg, hist>>

\* line 1719: apply_retention at the end of the pass
Retention ==
    /\ pc = "retention"
    /\ fs' = apply_retention(fs, cfg, now, {}).tree
    /\ hist' = [hist EXCEPT !.retention = @ + 1]
    /\ pc' = "done"
    /\ UNCHANGED <<dl, callVars, now, deadline, queues, codes, loop, stats, upstream, cfg>>

\* the history frames of at least MIN_IMAGE_SIZE bytes in the archive
FramesPresent(tree) ==
    {<<f.path.airport, f.path.cam, f.path.stamp>> :
        f \in {g \in tree : g.path.kind = "hist" /\ getsize(g.data) >= MIN_IMAGE_SIZE}}

\* the steps of a pass that uses the history API
HistoryNext ==
    \/ RunArchive
    \/ Collect
    \/ RoundStart
    \/ DropAirport
    \/ ProcessItem
    \/ RoundEnd
    \/ AfterRoundRobin
    \/ NextAirport
    \/ AirportsDone
    \/ SaveCurrent
    \/ UrlsDone
    \/ Retention

Next ==
    \/ HistoryNext
    \/ StopAtDeadline

\* one pass of run_archive
Spec == Init /\ [][Next]_vars

\* one pass whose thread keeps running: every request has a timeout and every sleep
\* an end, so a step that can be taken is taken
SpecPassFair == Init /\ [][Next]_vars /\ WF_vars(Next)

-----------------------------------------------------------------------------
(* Two passes in a row *)

\* the pass met an upstream that answered every request, saved every image it
\* fetched and drained every queue
CleanPass ==
    /\ hist.steady
    /\ hist.rr_end = "drained"
    /\ stats.errors = 0
    /\ ~stats.timed_out
    /\ stats.images_saved = stats.images_fetched

\* the scheduler starts the second pass one interval after the first, against the
\* same upstream and the archive the first pass left
NextRun ==
    /\ pc = "done"
    /\ hist.run = 1
    /\ pc' = "idle"
    /\ now' = StartTime + DEFAULT_INTERVAL_MINUTES * SECONDS_PER_MINUTE
    /\ deadline' = NoDeadline
    /\ queues' = <<>>
    /\ codes' = <<>>
    /\ loop' = NoLocals
    /\ stats' = NewStats
    /\ hist' = [NoHist EXCEPT !.run = 2, !.present = FramesPresent(fs),
                              !.files = Paths(fs), !.clean = CleanPass,
                              !.complete = {s.id : s \in hist.saved}]
    /\ UNCHANGED <<dl, callVars, fs, upstream, cfg>>

InitTwice ==
    /\ Init
    /\ cfg.use_history
    /\ cfg.archive_all \/ cfg.selected # {}

NextTwice ==
    \/ HistoryNext
    \/ NextRun

SpecTwice == InitTwice /\ [][NextTwice]_vars

-----------------------------------------------------------------------------
(* apply_retention on its own *)

\* image files of the archive a call of apply_retention finds
MaxRetentionFiles == 3

\* the time of the call, and the cutoff of a retention of one day
RetentionNow == StartTime

RetentionCutoff == RetentionNow - SECONDS_PER_DAY

\* the paths of the archive: history frames of one camera and metadata.json
RetentionPaths ==
    {HistoryPath("ka", 0, FrameTs(i), <<"N">>) : i \in 1..MaxRetentionFiles}
    \cup {MetadataPath("ka")}

\* what a path holds: nothing, or one or two blocks written one second before the
\* cutoff, at the cutoff or one second after it
RetentionContents ==
    {[data |-> d, mtime |-> m] :
        d \in {<<0>>, <<0, 0>>},
        m \in {RetentionCutoff - 1, RetentionCutoff, RetentionCutoff + 1}}

NoContent == [data |-> <<>>, mtime |-> 0]

RetentionTrees ==
    {{[path |-> p, data |-> c[p].data, mtime |-> c[p].mtime] :
         p \in {q \in RetentionPaths : c[q] # NoContent}} :
       c \in [RetentionPaths -> RetentionContents \cup {NoContent}]}

\* archive.retention_days 0 or 1, archive.retention_max_gb off or a budget of two or
\* three blocks
RetentionConfigs ==
    {Config(TRUE, PassRetries, 0, days, blocks * BlockSize, TRUE, {}) :
        days \in {0, 1}, blocks \in {0, 2, 3}}

RtInit ==
    /\ \E tree \in RetentionTrees, config \in RetentionConfigs :
          rt = [pc |-> "call", tree0 |-> tree, mid |-> tree, tree |-> tree,
                config |-> config, t |-> RetentionNow, deleted |-> 0, stuck |-> {}]
    /\ dl = <<>>
    /\ sch = <<>>
    /\ sv = <<>>
    /\ ov = <<>>
    /\ wr = <<>>
    /\ sa = <<>>
    /\ lg = <<>>
    /\ rl = <<>>
    /\ IdlePass

\* apply_retention(config)
RtApply ==
    /\ rt.pc = "call"
    /\ LET r == apply_retention(rt.tree0, rt.config, rt.t, rt.stuck)
       IN  rt' = [rt EXCEPT !.pc = "done", !.mid = r.mid, !.tree = r.tree,
                            !.deleted = r.deleted]
    /\ UNCHANGED <<dl, sch, sv, ov, passVars, wr, sa, lg, rl>>

RtNext == RtApply

SpecRetention == RtInit /\ [][RtNext]_vars

\* an archive in which os.remove fails for one of the image files
RtFaultInit ==
    /\ \E tree \in RetentionTrees, config \in RetentionConfigs :
          \E f \in RetentionFiles(tree) :
             rt = [pc |-> "call", tree0 |-> tree, mid |-> tree, tree |-> tree,
                   config |-> config, t |-> RetentionNow, deleted |-> 0,
                   stuck |-> {f.path}]
    /\ dl = <<>>
    /\ sch = <<>>
    /\ sv = <<>>
    /\ ov = <<>>
    /\ wr = <<>>
    /\ sa = <<>>
    /\ lg = <<>>
    /\ rl = <<>>
    /\ IdlePass

SpecRetentionFaults == RtFaultInit /\ [][RtNext]_vars

-----------------------------------------------------------------------------
(* save_image and save_history_image on their own *)

\* calls of the save function in one behaviour
SaveCalls == 2

MutSameHash(data, image_data) == FALSE

\* lines 1084-1089 and 1205-1210: _file_md5(filepath) against
\* hashlib.md5(image_data).hexdigest()
SameHash(data, image_data) == Checksum(data) = Checksum(image_data)

\* lines 1077-1104 and 1193-1223, common to both functions: makedirs, the duplicate
\* check, then open/write/chmod/utime.  fault is the OSError of this call: makedirs
\* can fail only where the directory is not there yet; a failing open("wb") leaves
\* the old file, a failing write leaves the truncated one, written at time t.
\* ret: "path" (filepath is returned) or "none"
SaveBytes(tree, path, image_data, mtime, fault, t) ==
    IF fault = "makedirs" /\ path \notin Paths(tree)
    THEN [tree |-> tree, ret |-> "none"]
    ELSE IF path \in Paths(tree) /\ SameHash(FileAt(tree, path).data, image_data)
    THEN [tree |-> tree, ret |-> "path"]
    ELSE CASE fault = "open"  -> [tree |-> tree, ret |-> "none"]
           [] fault = "write" -> [tree |-> Store(tree, path, FileOf(<<>>), t),
                                  ret |-> "none"]
           [] OTHER -> [tree |-> Store(tree, path, FileOf(image_data), mtime),
                        ret |-> "path"]

\* save_history_image(image_data, airport_code, cam_index, frame_ts, config,
\* camera_name)
save_history_image(tree, image_data, airport_code, cam_index, frame_ts, camera_name, fault, t) ==
    SaveBytes(tree, HistoryPath(airport_code, cam_index, frame_ts, camera_name),
              image_data, frame_ts, fault, t)

\* save_image(image_data, url, airport_code, config, timestamp, camera_name)
save_image(tree, image_data, url, airport_code, timestamp, camera_name, fault, t) ==
    SaveBytes(tree, CurrentPath(url, airport_code, timestamp, camera_name),
              image_data, timestamp, fault, t)

SaveDatas == {<<0>>, <<1>>, <<0, 0>>, <<0, 1>>, <<1, 0>>, <<1, 1>>}

SaveFaults == {"none", "makedirs", "open", "write"}

\* the path of the frame the calls save
SavePath(fn) ==
    IF fn = "save_image"
    THEN CurrentPath(<<"cam", "image">>, "ka", FrameTs(1), <<"N">>)
    ELSE HistoryPath("ka", 0, FrameTs(1), <<"N">>)

\* the archive before the first call: empty, or a file at the path of the frame,
\* written at its capture time or touched later
SaveTrees(fn) ==
    {{}} \cup {{[path |-> SavePath(fn), data |-> d, mtime |-> m]} :
                  d \in SaveDatas, m \in {FrameTs(1), StartTime}}

SvInit ==
    /\ \E fn \in {"save_image", "save_history_image"}, image_data \in SaveDatas :
          \E tree \in SaveTrees(fn) :
             sv = [fn |-> fn, image_data |-> image_data, tree0 |-> tree, tree |-> tree,
                   first |-> tree, calls |-> 0, ret |-> "none", ret1 |-> "none",
                   fault |-> "none"]
    /\ dl = <<>>
    /\ rt = <<>>
    /\ sch = <<>>
    /\ ov = <<>>
    /\ wr = <<>>
    /\ sa = <<>>
    /\ lg = <<>>
    /\ rl = <<>>
    /\ IdlePass

\* one call of the save function with the same arguments, one second after StartTime
SvSave ==
    /\ sv.calls < SaveCalls
    /\ \E fault \in SaveFaults :
          LET r == IF sv.fn = "save_image"
                   THEN save_image(sv.tree, sv.image_data, <<"cam", "image">>, "ka",
                                   FrameTs(1), <<"N">>, fault, StartTime + 1)
                   ELSE save_history_image(sv.tree, sv.image_data, "ka", 0, FrameTs(1),
                                           <<"N">>, fault, StartTime + 1)
          IN  sv' = [sv EXCEPT !.tree = r.tree, !.ret = r.ret, !.fault = fault,
                               !.calls = @ + 1,
                               !.first = IF sv.calls = 0 THEN r.tree ELSE @,
                               !.ret1 = IF sv.calls = 0 THEN r.ret ELSE @]
    /\ UNCHANGED <<dl, rt, sch, ov, passVars, wr, sa, lg, rl>>

SvNext == SvSave

SpecSave == SvInit /\ [][SvNext]_vars

-----------------------------------------------------------------------------
(* Two passes that overlap on one frame: download_image_to_file chunk by chunk *)

\* chunks of the frame
FrameBlocks == 3

\* RequestExceptions the network raises in one behaviour
MaxFails == 1

Writers == {"a", "b"}

\* the content of the frame on the server, one block per chunk
FrameBody == [i \in 1..FrameBlocks |-> i]

\* the directory entry of filepath is ov.path: 0 when there is no file, otherwise the
\* index in ov.inodes of the file it names.  The writers other than p that hold open
\* the file filepath names
OpenOthers(o, p) ==
    {q \in Writers \ {p} : o.w[q].pc = "write" /\ o.path # 0 /\ o.w[q].ino = o.path}

\* what p did to a file another writer holds open
Event(o, p, what) == IF OpenOthers(o, p) # {} THEN {what} ELSE {}

\* _delete_partial_file(filepath): the entry is removed, the file lives on for the
\* writers that hold it open
Unlinked(o, p) == [o EXCEPT !.path = 0, !.events = @ \cup Event(o, p, "delete")]

\* os.path.getsize(filepath), in blocks
SizeAtPath(o) == IF o.path = 0 THEN 0 ELSE Len(o.inodes[o.path])

\* MIN_IMAGE_SIZE in blocks
MinBlocks == MIN_IMAGE_SIZE \div BlockSize

\* fh.write(chunk) at offset off of a file opened "wb": a gap is filled with zeros
WriteAt(data, off, block) ==
    [i \in 1..(IF off + 1 > Len(data) THEN off + 1 ELSE Len(data)) |->
        IF i = off + 1 THEN block ELSE IF i <= Len(data) THEN data[i] ELSE 0]

NoWriter ==
    [pc |-> "scan", existing |-> 0, status |-> 0, ino |-> 0, mode |-> "", off |-> 0,
     todo |-> <<>>, attempt |-> 0, ret |-> "none"]

OvInit ==
    /\ \E digest \in BOOLEAN :
          ov = [path |-> 0, inodes |-> <<>>, digest |-> digest, events |-> {},
                fails |-> 0, w |-> [p \in Writers |-> NoWriter]]
    /\ dl = <<>>
    /\ rt = <<>>
    /\ sch = <<>>
    /\ sv = <<>>
    /\ wr = <<>>
    /\ sa = <<>>
    /\ lg = <<>>
    /\ rl = <<>>
    /\ IdlePass

\* _get_existing_frames, lines 598-612: a file below MIN_IMAGE_SIZE is deleted, a
\* larger one makes the frame an existing one, which the pass does not download
OvScan(p) ==
    /\ ov.w[p].pc = "scan"
    /\ ov' = IF ov.path = 0 THEN [ov EXCEPT !.w[p].pc = "start"]
             ELSE IF SizeAtPath(ov) < MinBlocks
             THEN [Unlinked(ov, p) EXCEPT !.w[p].pc = "start"]
             ELSE [ov EXCEPT !.w[p].pc = "done", !.w[p].ret = "existing"]
    /\ UNCHANGED <<dl, rt, sch, sv, passVars, wr, sa, lg, rl>>

\* lines 822-827
OvStart(p) ==
    /\ ov.w[p].pc = "start"
    /\ ov' = IF ov.path # 0 /\ SizeAtPath(ov) >= MinBlocks
             THEN [ov EXCEPT !.w[p].pc = "request", !.w[p].attempt = 1,
                             !.w[p].existing = SizeAtPath(ov)]
             ELSE IF ov.path # 0
             THEN [Unlinked(ov, p) EXCEPT !.w[p].pc = "request", !.w[p].attempt = 1]
             ELSE [ov EXCEPT !.w[p].pc = "request", !.w[p].attempt = 1]
    /\ UNCHANGED <<dl, rt, sch, sv, passVars, wr, sa, lg, rl>>

\* the except clause, lines 922-933: the file at filepath is deleted and the next
\* attempt starts from nothing
Retried(o, p) ==
    [Unlinked(o, p) EXCEPT !.w[p].pc = "request", !.w[p].existing = 0,
                           !.w[p].attempt = @ + 1]

\* open(filepath, "ab"): the file filepath names, or a new one
OpenedAppend(o, p, body, status) ==
    LET ino == IF o.path = 0 THEN Len(o.inodes) + 1 ELSE o.path
    IN  [o EXCEPT !.inodes = IF o.path = 0 THEN Append(@, <<>>) ELSE @,
                  !.path = ino,
                  !.events = @ \cup Event(o, p, "append"),
                  !.w[p].pc = "write", !.w[p].ino = ino, !.w[p].mode = "ab",
                  !.w[p].todo = body, !.w[p].status = status]

\* open(filepath, "wb"): the file filepath names, cut to nothing, or a new one
OpenedWrite(o, p, body, status) ==
    LET ino == IF o.path = 0 THEN Len(o.inodes) + 1 ELSE o.path
    IN  [o EXCEPT !.inodes = IF o.path = 0 THEN Append(@, <<>>)
                             ELSE [@ EXCEPT ![ino] = <<>>],
                  !.path = ino,
                  !.events = @ \cup Event(o, p, "truncate"),
                  !.w[p].pc = "write", !.w[p].ino = ino, !.w[p].mode = "wb",
                  !.w[p].off = 0,
                  !.w[p].existing = 0,
                  !.w[p].todo = body, !.w[p].status = status]

\* lines 829-871: the request, answered in full or, when a Range was asked for and
\* the server honours it, with the rest of the frame; then the file is opened
OvRequest(p) ==
    /\ ov.w[p].pc = "request"
    /\ ov.w[p].attempt <= MaxRetries
    /\ \E ranged \in BOOLEAN :
          LET existing == ov.w[p].existing
          IN  ov' = IF existing > 0 /\ ranged /\ existing >= FrameBlocks
                    THEN Retried(ov, p)       \* 416, raise_for_status
                    ELSE IF existing > 0 /\ ranged
                    THEN OpenedAppend(ov, p,
                            SubSeq(FrameBody, existing + 1, FrameBlocks), 206)
                    ELSE IF existing > 0
                    THEN OpenedWrite(Unlinked(ov, p), p, FrameBody, 200)
                    ELSE OpenedWrite(ov, p, FrameBody, 200)
    /\ UNCHANGED <<dl, rt, sch, sv, passVars, wr, sa, lg, rl>>

\* lines 935-937: every attempt failed
OvExhausted(p) ==
    /\ ov.w[p].pc = "request"
    /\ ov.w[p].attempt > MaxRetries
    /\ ov' = [Unlinked(ov, p) EXCEPT !.w[p].pc = "done", !.w[p].ret = "false"]
    /\ UNCHANGED <<dl, rt, sch, sv, passVars, wr, sa, lg, rl>>

\* lines 871-874: one chunk is written, at the end of a file opened "ab", at the
\* offset of the writer in a file opened "wb"
OvWrite(p) ==
    /\ ov.w[p].pc = "write"
    /\ ov.w[p].todo # <<>>
    /\ LET ino == ov.w[p].ino
           block == Head(ov.w[p].todo)
       IN  ov' = [ov EXCEPT
                     !.inodes[ino] = IF ov.w[p].mode = "ab" THEN Append(@, block)
                                     ELSE WriteAt(@, ov.w[p].off, block),
                     !.w[p].off = IF ov.w[p].mode = "ab" THEN @ ELSE @ + 1,
                     !.w[p].todo = Tail(@)]
    /\ UNCHANGED <<dl, rt, sch, sv, passVars, wr, sa, lg, rl>>

\* requests.get or iter_content raises a RequestException
OvFail(p) ==
    /\ ov.w[p].pc \in {"request", "write"}
    /\ ov.w[p].attempt <= MaxRetries
    /\ ov.fails < MaxFails
    /\ ov' = [Retried(ov, p) EXCEPT !.fails = @ + 1]
    /\ UNCHANGED <<dl, rt, sch, sv, passVars, wr, sa, lg, rl>>

\* lines 876-920: the size of filepath against the Content-Range total after a 206,
\* the hash of filepath against the integrity header otherwise; os.path.getsize of a
\* missing file raises FileNotFoundError, which leaves the function
OvFinish(p) ==
    /\ ov.w[p].pc = "write"
    /\ ov.w[p].todo = <<>>
    /\ ov' = IF ov.path = 0
             THEN [ov EXCEPT !.w[p].pc = "done", !.w[p].ret = "raise"]
             ELSE IF ov.w[p].status = 206 /\ SizeAtPath(ov) # FrameBlocks
             THEN Retried(ov, p)
             ELSE IF ov.w[p].status # 206 /\ ov.digest /\ ov.inodes[ov.path] # FrameBody
             THEN Retried(ov, p)
             ELSE [ov EXCEPT !.w[p].pc = "done", !.w[p].ret = "true"]
    /\ UNCHANGED <<dl, rt, sch, sv, passVars, wr, sa, lg, rl>>

OvNext ==
    \E p \in Writers :
        \/ OvScan(p)
        \/ OvStart(p)
        \/ OvRequest(p)
        \/ OvExhausted(p)
        \/ OvWrite(p)
        \/ OvFail(p)
        \/ OvFinish(p)

SpecOverlap == OvInit /\ [][OvNext]_vars

-----------------------------------------------------------------------------
(* The scheduler: _archive_job, trigger_run and the worker process *)

\* log records a worker forwards to its parent
MaxLogs == 1

\* the clock of the scheduler counts schedule intervals up to MaxClock
MaxClock == 3

\* line 112: stale_threshold_seconds = interval_minutes * 2 * 60, in intervals
StaleThreshold == 2

\* _state["_running_since"] is None
NoSince == -1

\* the threads that run _archive_job: the scheduled job and the threads trigger_run
\* starts; the web threads that call trigger_run
Jobs == {"s", "j1", "j2"}

Webs == {"w1", "w2"}

JobOf(w) == IF w = "w1" THEN "j1" ELSE "j2"

\* what reaches _SchedulerLogHandler: nothing (start_scheduler did not attach it, or
\* the level is above WARNING), records from WARNING up, or records from DEBUG up
Loggings == {"none", "warning", "debug"}

\* logger.warning(...) runs _SchedulerLogHandler.emit, that is _append_log
WarningHandled == sch.logging \in {"warning", "debug"}

\* logger.debug(...) runs _append_log
DebugHandled == sch.logging = "debug"

\* worker.py: the messages on the channel
LogMessage == [type |-> "log", stats |-> "none", error |-> "none"]

CompleteMessage(result, error) == [type |-> "complete", stats |-> result, error |-> error]

\* line 163: the result the parent makes up for a worker that left nothing
CrashResult == [type |-> "crash", stats |-> "none", error |-> "Worker exited without result"]

NoResult == [type |-> "none", stats |-> "none", error |-> "none"]

NoThread ==
    [pc |-> "idle", result |-> NoResult, found |-> "none", started |-> FALSE,
     updated |-> FALSE]

NoWorker == [pc |-> "none", logs |-> 0, sent |-> <<>>]

\* the callers of one behaviour: the interval trigger and a web request, or two web
\* requests
Casts == {{"s", "w1"}, {"w1", "w2"}}

SchInit ==
    /\ \E logging \in Loggings, cast \in Casts :
          sch = [lock |-> "free", running |-> FALSE, since |-> NoSince, clock |-> 0,
                 last_run |-> NoSince, last_stats |-> "none", run_count |-> 0,
                 holder |-> "none",
                 logging |-> logging, cast |-> cast,
                 th |-> [j \in Jobs |-> NoThread],
                 web |-> [w \in Webs |-> [pc |-> "idle", ret |-> "none"]],
                 wk |-> [j \in Jobs |-> NoWorker],
                 chan |-> [j \in Jobs |-> <<>>]]
    /\ dl = <<>>
    /\ rt = <<>>
    /\ sv = <<>>
    /\ ov = <<>>
    /\ wr = <<>>
    /\ sa = <<>>
    /\ lg = <<>>
    /\ rl = <<>>
    /\ IdlePass

\* holder (not program state) is the job that set the running flag last

\* time passes; the clock is read only while the flag is set
SchedTick ==
    /\ sch.clock < MaxClock
    /\ sch.running
    /\ sch' = [sch EXCEPT !.clock = @ + 1]
    /\ UNCHANGED <<dl, rt, sv, ov, passVars, wr, sa, lg, rl>>

\* lines 97-105: the interval trigger calls _archive_job; validate_config
JobCall ==
    /\ "s" \in sch.cast
    /\ sch.th["s"].pc = "idle"
    /\ \E valid \in BOOLEAN :
          sch' = [sch EXCEPT !.th["s"].pc = IF valid THEN "check" ELSE "invalid"]
    /\ UNCHANGED <<dl, rt, sv, ov, passVars, wr, sa, lg, rl>>

\* line 117: elapsed > stale_threshold_seconds
Stale(since, clock) == since # NoSince /\ clock - since > StaleThreshold

\* lines 114-133: the block under _state_lock.  A stale flag leads to
\* logger.warning and _append_log, a fresh one to logger.warning, both inside the
\* block: _append_log then waits for _state_lock, a threading.Lock, which the thread
\* holds
JobCheck(j) ==
    /\ sch.th[j].pc = "check"
    /\ sch.lock = "free"
    /\ sch' =
          IF sch.running /\ Stale(sch.since, sch.clock)
          THEN [sch EXCEPT !.lock = j, !.th[j].pc = "stale_log", !.th[j].found = "stale"]
          ELSE IF sch.running /\ WarningHandled
          THEN [sch EXCEPT !.lock = j, !.th[j].pc = "skip_log", !.th[j].found = "busy"]
          ELSE IF sch.running
          THEN [sch EXCEPT !.th[j].pc = "returned", !.th[j].found = "busy"]
          ELSE [sch EXCEPT !.running = TRUE, !.since = sch.clock, !.holder = j,
                           !.th[j].pc = "started", !.th[j].found = "free"]
    /\ UNCHANGED <<dl, rt, sv, ov, passVars, wr, sa, lg, rl>>

\* the step of _archive_job that follows a call of _append_log
AfterAppendLog(j) ==
    CASE sch.th[j].pc = "invalid" -> [sch EXCEPT !.th[j].pc = "returned"]
      \* lines 127-133: the stale flag is cleared and set again, the lock released
      [] sch.th[j].pc = "stale_log" ->
            [sch EXCEPT !.lock = "free", !.running = TRUE, !.since = sch.clock,
                        !.holder = j, !.th[j].pc = "started"]
      \* lines 130-131: return, the lock released
      [] sch.th[j].pc = "skip_log" ->
            [sch EXCEPT !.lock = "free", !.th[j].pc = "returned"]
      \* lines 135-143: process.start()
      [] sch.th[j].pc = "started" ->
            [sch EXCEPT !.th[j].pc = "consume", !.th[j].started = TRUE,
                        !.wk[j].pc = "run"]
      [] sch.th[j].pc = "log_msg" -> [sch EXCEPT !.th[j].pc = "consume"]
      [] OTHER -> [sch EXCEPT !.th[j].pc = "finally"]

\* _append_log (lines 60-73) takes _state_lock: the thread waits until it is free
JobAppendLog(j) ==
    /\ sch.th[j].pc \in {"invalid", "stale_log", "skip_log", "started", "log_msg",
                        "err_log", "ok_log"}
    /\ sch.lock = "free"
    /\ sch' = AfterAppendLog(j)
    /\ UNCHANGED <<dl, rt, sv, ov, passVars, wr, sa, lg, rl>>

\* line 156: not process.is_alive()
WorkerDead(w) == w.pc \in {"exited", "crashed"}

\* line 150: result_queue.get returns the next message of the worker
JobRecv(j) ==
    /\ sch.th[j].pc = "consume"
    /\ sch.chan[j] # <<>>
    /\ LET msg == Head(sch.chan[j])
       IN  sch' = IF msg.type = "log"
                  THEN [sch EXCEPT !.chan[j] = Tail(@), !.th[j].pc = "log_msg"]
                  ELSE [sch EXCEPT !.chan[j] = Tail(@), !.th[j].pc = "join",
                                   !.th[j].result = msg]
    /\ UNCHANGED <<dl, rt, sv, ov, passVars, wr, sa, lg, rl>>

\* lines 150, 155: result_queue.get(timeout=0.5) finds the queue empty
JobTimeout(j) ==
    /\ sch.th[j].pc = "consume"
    /\ sch.chan[j] = <<>>
    /\ sch' = [sch EXCEPT !.th[j].pc = "timed"]
    /\ UNCHANGED <<dl, rt, sv, ov, passVars, wr, sa, lg, rl>>

\* lines 156-161: a live worker sends the loop round again; after a dead one the
\* queue is read once more and whatever message it holds is the result
JobAlive(j) ==
    /\ sch.th[j].pc = "timed"
    /\ sch' = IF ~WorkerDead(sch.wk[j])
              THEN [sch EXCEPT !.th[j].pc = "consume"]
              ELSE IF sch.chan[j] # <<>>
              THEN [sch EXCEPT !.chan[j] = Tail(@), !.th[j].pc = "join",
                               !.th[j].result = Head(sch.chan[j])]
              ELSE [sch EXCEPT !.th[j].pc = "join", !.th[j].result = CrashResult]
    /\ UNCHANGED <<dl, rt, sv, ov, passVars, wr, sa, lg, rl>>

\* line 163: process.join()
JobJoin(j) ==
    /\ sch.th[j].pc = "join"
    /\ WorkerDead(sch.wk[j])
    /\ sch' = [sch EXCEPT !.th[j].pc = "handle"]
    /\ UNCHANGED <<dl, rt, sv, ov, passVars, wr, sa, lg, rl>>

\* lines 165-170: result["error"] of a log record raises KeyError
JobHandle(j) ==
    /\ sch.th[j].pc = "handle"
    /\ sch' = [sch EXCEPT !.th[j].pc =
                  IF sch.th[j].result.type = "log" THEN "finally"
                  ELSE IF sch.th[j].result.error # "none" THEN "err_log"
                  ELSE "update"]
    /\ UNCHANGED <<dl, rt, sv, ov, passVars, wr, sa, lg, rl>>

\* lines 171-174: last_run, last_stats and run_count under _state_lock
JobUpdate(j) ==
    /\ sch.th[j].pc = "update"
    /\ sch.lock = "free"
    /\ sch' = [sch EXCEPT !.last_run = sch.clock,
                          !.last_stats = sch.th[j].result.stats,
                          !.run_count = @ + 1,
                          !.th[j].pc = "ok_log", !.th[j].updated = TRUE]
    /\ UNCHANGED <<dl, rt, sv, ov, passVars, wr, sa, lg, rl>>

\* lines 187-191: finally
JobFinally(j) ==
    /\ sch.th[j].pc = "finally"
    /\ sch.lock = "free"
    /\ sch' = [sch EXCEPT !.running = FALSE, !.since = NoSince,
                          !.th[j].pc = "returned"]
    /\ UNCHANGED <<dl, rt, sv, ov, passVars, wr, sa, lg, rl>>

MutMayPut(w) == w.pc \in {"run", "sent"}

\* worker.py lines 41-91, 94-128: the worker puts messages until its complete message
MayPut(w) == w.pc = "run"

\* worker.py lines 15-31: _QueueLogHandler.emit puts a log record on the queue
WorkerLog(j) ==
    /\ MayPut(sch.wk[j])
    /\ sch.wk[j].logs < MaxLogs
    /\ sch' = [sch EXCEPT !.chan[j] = Append(@, LogMessage),
                          !.wk[j].logs = @ + 1,
                          !.wk[j].sent = Append(@, LogMessage)]
    /\ UNCHANGED <<dl, rt, sv, ov, passVars, wr, sa, lg, rl>>

\* worker.py lines 62-91, 109-128: the complete message, with the stats of the run or
\* with the error of validate_config or of the exception
WorkerComplete(j) ==
    /\ MayPut(sch.wk[j])
    /\ \E msg \in {CompleteMessage("stats", "none"), CompleteMessage("none", "error")} :
          sch' = [sch EXCEPT !.chan[j] = Append(@, msg),
                             !.wk[j].pc = "sent",
                             !.wk[j].sent = Append(@, msg)]
    /\ UNCHANGED <<dl, rt, sv, ov, passVars, wr, sa, lg, rl>>

\* the worker function returns and the process ends
WorkerExit(j) ==
    /\ sch.wk[j].pc = "sent"
    /\ sch' = [sch EXCEPT !.wk[j].pc = "exited"]
    /\ UNCHANGED <<dl, rt, sv, ov, passVars, wr, sa, lg, rl>>

\* the process dies before its complete message
WorkerCrash(j) ==
    /\ sch.wk[j].pc = "run"
    /\ sch' = [sch EXCEPT !.wk[j].pc = "crashed"]
    /\ UNCHANGED <<dl, rt, sv, ov, passVars, wr, sa, lg, rl>>

\* lines 347-349: trigger_run validates the configuration
TrigCall(w) ==
    /\ w \in sch.cast
    /\ sch.web[w].pc = "idle"
    /\ \E valid \in BOOLEAN :
          sch' = IF valid
                 THEN [sch EXCEPT !.web[w].pc = "check"]
                 ELSE [sch EXCEPT !.web[w].pc = "returned", !.web[w].ret = "false"]
    /\ UNCHANGED <<dl, rt, sv, ov, passVars, wr, sa, lg, rl>>

\* lines 350-353: the flag is read under _state_lock; logger.debug inside the block
\* waits for the lock the thread holds when the record reaches _append_log
TrigCheck(w) ==
    /\ sch.web[w].pc = "check"
    /\ sch.lock = "free"
    /\ sch' = IF sch.running /\ DebugHandled
              THEN [sch EXCEPT !.lock = w, !.web[w].pc = "skip_log"]
              ELSE IF sch.running
              THEN [sch EXCEPT !.web[w].pc = "returned", !.web[w].ret = "false"]
              ELSE [sch EXCEPT !.web[w].pc = "spawn"]
    /\ UNCHANGED <<dl, rt, sv, ov, passVars, wr, sa, lg, rl>>

\* lines 352-356: after logger.debug, return False, or start the thread of
\* _archive_job and return True
TrigReturn(w) ==
    /\ sch.web[w].pc \in {"skip_log", "spawn"}
    /\ (sch.web[w].pc = "skip_log" \/ DebugHandled) => sch.lock = "free"
    /\ sch' = IF sch.web[w].pc = "skip_log"
              THEN [sch EXCEPT !.lock = "free", !.web[w].pc = "returned",
                               !.web[w].ret = "false"]
              ELSE [sch EXCEPT !.web[w].pc = "returned", !.web[w].ret = "true",
                               !.th[JobOf(w)].pc = "check"]
    /\ UNCHANGED <<dl, rt, sv, ov, passVars, wr, sa, lg, rl>>

JobStep(j) ==
    \/ JobCheck(j)
    \/ JobAppendLog(j)
    \/ JobRecv(j)
    \/ JobTimeout(j)
    \/ JobAlive(j)
    \/ JobJoin(j)
    \/ JobHandle(j)
    \/ JobUpdate(j)
    \/ JobFinally(j)

WorkerStep(j) ==
    \/ WorkerLog(j)
    \/ WorkerComplete(j)
    \/ WorkerExit(j)
    \/ WorkerCrash(j)

TrigStep(w) ==
    \/ TrigCall(w)
    \/ TrigCheck(w)
    \/ TrigReturn(w)

SchNext ==
    \/ SchedTick
    \/ JobCall
    \/ \E j \in Jobs : JobStep(j)
    \/ \E j \in Jobs : WorkerStep(j)
    \/ \E w \in Webs : TrigStep(w)

\* a thread that can take its next step takes it, and a worker that has put its
\* complete message returns
SchFairness ==
    /\ \A j \in Jobs : WF_vars(JobStep(j))
    /\ \A j \in Jobs : WF_vars(WorkerExit(j))
    /\ \A w \in Webs : WF_vars(TrigCheck(w) \/ TrigReturn(w))

SpecScheduler == SchInit /\ [][SchNext]_vars /\ SchFairness

-----------------------------------------------------------------------------
(* The time limit of one scheduled run: the stale threshold of _archive_job and *)
(* the deadline of run_archive_worker, on one clock in seconds                  *)

\* schedule.interval_minutes goes up to MaxInterval; NoInterval: the key is absent
MaxInterval == 3

NoInterval == -1

\* the clock advances by TickSeconds; the worker process reads the clock at most
\* MaxSpawnTicks ticks after _archive_job stored _running_since
TickSeconds == 6

MaxSpawnTicks == 2

\* config["schedule"].get("interval_minutes", DEFAULT_INTERVAL_MINUTES)
ScheduleInterval(config_interval) ==
    IF config_interval = NoInterval THEN DEFAULT_INTERVAL_MINUTES ELSE config_interval

\* validate_config, config.py lines 230-236: the interval must be at least 1 minute
IntervalErrors(config_interval) == ScheduleInterval(config_interval) < 1

\* max(1, config["schedule"].get("interval_minutes", DEFAULT_INTERVAL_MINUTES)),
\* scheduler.py lines 107-110 and worker.py lines 80-83
interval_minutes(config_interval) ==
    IF ScheduleInterval(config_interval) > 1 THEN ScheduleInterval(config_interval) ELSE 1

\* scheduler.py line 112: interval_minutes * 2 * 60
stale_threshold_seconds(minutes) == minutes * 2 * SECONDS_PER_MINUTE

Mut_run_limit_seconds(minutes) == minutes * 3 * SECONDS_PER_MINUTE

\* worker.py line 84: interval_minutes * 0.9 * 60, a whole number of seconds for a
\* whole number of minutes
run_limit_seconds(minutes) == (minutes * 9 * SECONDS_PER_MINUTE) \div 10

\* one scheduled run: the configured interval, the clock, _running_since, the
\* threshold _archive_job computed, the time the worker read the clock, the deadline
\* it passed to run_archive, and whether a later call found the run stale
WrInit ==
    /\ \E config_interval \in {NoInterval} \cup 0..MaxInterval :
          wr = [pc |-> "idle", config_interval |-> config_interval, clock |-> 0,
                since |-> NoSince, threshold |-> 0, started |-> NoSince,
                deadline |-> NoDeadline, stale |-> FALSE]
    /\ dl = <<>>
    /\ rt = <<>>
    /\ sch = <<>>
    /\ sv = <<>>
    /\ ov = <<>>
    /\ sa = <<>>
    /\ lg = <<>>
    /\ rl = <<>>
    /\ IdlePass

\* _archive_job, scheduler.py lines 97-132: a configuration with errors is rejected;
\* otherwise the threshold is computed and _running_since is set to the clock
WrJob ==
    /\ wr.pc = "idle"
    /\ wr' = IF IntervalErrors(wr.config_interval)
             THEN [wr EXCEPT !.pc = "rejected"]
             ELSE [wr EXCEPT !.pc = "spawned", !.since = wr.clock,
                             !.threshold = stale_threshold_seconds(
                                               interval_minutes(wr.config_interval))]
    /\ UNCHANGED <<dl, rt, sch, sv, ov, passVars, sa, lg, rl>>

\* run_archive_worker, worker.py lines 73-87: the worker validates the same
\* configuration, reads the clock and passes the deadline to run_archive
WrWorker ==
    /\ wr.pc = "spawned"
    /\ ~IntervalErrors(wr.config_interval)
    /\ wr' = [wr EXCEPT !.pc = "running", !.started = wr.clock,
                        !.deadline = wr.clock + run_limit_seconds(
                                                    interval_minutes(wr.config_interval))]
    /\ UNCHANGED <<dl, rt, sch, sv, ov, passVars, sa, lg, rl>>

\* time passes: while the worker process starts, and while the pass runs, until the
\* threshold has run out
WrTick ==
    /\ \/ wr.pc = "spawned" /\ wr.clock < wr.since + MaxSpawnTicks * TickSeconds
       \/ wr.pc = "running" /\ wr.clock - wr.since <= wr.threshold
    /\ wr' = [wr EXCEPT !.clock = @ + TickSeconds]
    /\ UNCHANGED <<dl, rt, sch, sv, ov, passVars, sa, lg, rl>>

\* a later call of _archive_job while the run is in progress, scheduler.py lines
\* 114-117: elapsed > stale_threshold_seconds
WrStaleCheck ==
    /\ wr.pc = "running"
    /\ ~wr.stale
    /\ wr.clock - wr.since > wr.threshold
    /\ wr' = [wr EXCEPT !.stale = TRUE]
    /\ UNCHANGED <<dl, rt, sch, sv, ov, passVars, sa, lg, rl>>

WrNext ==
    \/ WrJob
    \/ WrWorker
    \/ WrTick
    \/ WrStaleCheck

SpecRunLimit == WrInit /\ [][WrNext]_vars

-----------------------------------------------------------------------------
(* select_airports on its own: one call for every listing and configuration *)

\* airports in the listing of the API
MaxListed == 2

\* the values of the keys code, id and icao, and the airports made of them: every
\* choice of keys, every value for each
ListedCodes == {"", "ka", "KB"}

ListedAirports == UNION {[keys -> ListedCodes] : keys \in SUBSET {"code", "id", "icao"}}

Listings == UNION {[1..n -> ListedAirports] : n \in 0..MaxListed}

\* airports.archive_all and airports.selected
SelectConfigs ==
    [archive_all : BOOLEAN, selected : {{}, {"ka"}, {"KA", "kb"}, {""}}]

SaInit ==
    /\ \E all_airports \in Listings, config \in SelectConfigs :
          sa = [pc |-> "call", all_airports |-> all_airports, config |-> config,
                result |-> <<>>]
    /\ dl = <<>>
    /\ rt = <<>>
    /\ sch = <<>>
    /\ sv = <<>>
    /\ ov = <<>>
    /\ wr = <<>>
    /\ lg = <<>>
    /\ rl = <<>>
    /\ IdlePass

\* the call of select_airports
SaSelect ==
    /\ sa.pc = "call"
    /\ sa' = [sa EXCEPT !.pc = "done",
                        !.result = select_airports(sa.all_airports, sa.config)]
    /\ UNCHANGED <<dl, rt, sch, sv, ov, wr, passVars, lg, rl>>

SaNext == SaSelect

SpecSelect == SaInit /\ [][SaNext]_vars

-----------------------------------------------------------------------------
(* _append_log: the log of the scheduler state, call after call *)

\* _MAX_LOG_BYTES (scheduler.py line 37), in units of LogUnit bytes
MaxLogBytes == 6

\* len(json.dumps(entry)) goes up to MaxEntryBytes units: one entry can be larger
\* than the whole budget
MaxEntryBytes == 7

\* calls of _append_log in one behaviour
MaxAppends == 6

RECURSIVE SumBytes(_)
\* the sum of len(json.dumps(e)) over the entries
SumBytes(entries) ==
    IF entries = <<>> THEN 0 ELSE Head(entries).bytes + SumBytes(Tail(entries))

RECURSIVE MutTrimLog(_, _)
MutTrimLog(log_entries, log_bytes) ==
    IF log_bytes > MaxLogBytes /\ Len(log_entries) > 1
    THEN MutTrimLog(SubSeq(log_entries, 1, Len(log_entries) - 1),
                    log_bytes - log_entries[Len(log_entries)].bytes)
    ELSE [log_entries |-> log_entries, log_bytes |-> log_bytes]

RECURSIVE TrimLog(_, _)
\* lines 71-73: while over the budget and more than one entry, pop(0) and subtract
\* the size of the removed entry
TrimLog(log_entries, log_bytes) ==
    IF log_bytes > MaxLogBytes /\ Len(log_entries) > 1
    THEN TrimLog(Tail(log_entries), log_bytes - Head(log_entries).bytes)
    ELSE [log_entries |-> log_entries, log_bytes |-> log_bytes]

\* lines 66-73: the block under _state_lock
_append_log(log_entries, log_bytes, entry) ==
    TrimLog(Append(log_entries, entry), log_bytes + entry.bytes)

\* _state as the module sets it up (lines 34-35); appended counts the calls
LgInit ==
    /\ lg = [log_entries |-> <<>>, log_bytes |-> 0, appended |-> 0]
    /\ dl = <<>>
    /\ rt = <<>>
    /\ sch = <<>>
    /\ sv = <<>>
    /\ ov = <<>>
    /\ wr = <<>>
    /\ sa = <<>>
    /\ rl = <<>>
    /\ IdlePass

\* one call of _append_log; the entry is the n-th appended and serializes to
\* entry_bytes units
LgAppend ==
    /\ lg.appended < MaxAppends
    /\ \E entry_bytes \in 1..MaxEntryBytes :
          LET entry == [n |-> lg.appended + 1, bytes |-> entry_bytes]
              after == _append_log(lg.log_entries, lg.log_bytes, entry)
          IN  lg' = [log_entries |-> after.log_entries, log_bytes |-> after.log_bytes,
                     appended |-> lg.appended + 1]
    /\ UNCHANGED <<dl, rt, sch, sv, ov, wr, sa, rl, passVars>>

LgNext == LgAppend

SpecLog == LgInit /\ [][LgNext]_vars

-----------------------------------------------------------------------------
(* _rate_limit: the calls before the requests of one process, and the skip flag *)

\* source._request_delay_seconds and source.request_delay_seconds go up to MaxDelay
MaxDelay == 2

\* calls of _rate_limit in one behaviour
MaxCalls == 4

\* source._request_delay_seconds is not set
NoDelay == -1

\* lines 153-155: the detected delay when it is set, the configured one otherwise
RateDelay(source) ==
    IF source.detected # NoDelay THEN source.detected ELSE source.configured

Mut_rate_limit(source) ==
    IF source.skip THEN [source |-> source, slept |-> 0]
    ELSE [source |-> source, slept |-> RateDelay(source)]

\* _rate_limit, lines 150-157: source.pop("_skip_next_rate_limit", False) returns at
\* once, else time.sleep(delay) when delay > 0; slept is the time the call took
_rate_limit(source) ==
    IF source.skip THEN [source |-> [source EXCEPT !.skip = FALSE], slept |-> 0]
    ELSE [source |-> source, slept |-> IF RateDelay(source) > 0 THEN RateDelay(source)
                                       ELSE 0]

\* the requests that follow a call of _rate_limit: an image download
\* (download_image_to_file, download_image) or a call of the API
Requests == {"download", "api"}

\* config["source"] without the skip flag; calls counts the calls of _rate_limit,
\* skipped those that found the flag set,
\* last is the last call (none yet: slept NoDelay), pending tells that a download was
\* answered with 404/410 and _rate_limit has not been called since
RlInit ==
    /\ \E detected \in {NoDelay} \cup 0..MaxDelay, configured \in 0..MaxDelay :
          rl = [pc |-> "idle",
                source |-> [skip |-> FALSE, detected |-> detected,
                            configured |-> configured],
                calls |-> 0, skipped |-> 0, pending |-> FALSE,
                last |-> [slept |-> NoDelay, pending |-> FALSE]]
    /\ dl = <<>>
    /\ rt = <<>>
    /\ sch = <<>>
    /\ sv = <<>>
    /\ ov = <<>>
    /\ wr = <<>>
    /\ sa = <<>>
    /\ lg = <<>>
    /\ IdlePass

\* a call of _rate_limit before a request (lines 179, 288, 318, 389, 515, 830, 952)
RlRateLimit ==
    /\ rl.pc = "idle"
    /\ rl.calls < MaxCalls
    /\ LET r == _rate_limit(rl.source)
       IN  rl' = [rl EXCEPT !.pc = "request", !.source = r.source, !.calls = @ + 1,
                            !.pending = FALSE,
                            !.skipped = IF rl.source.skip THEN @ + 1 ELSE @,
                            !.last = [slept |-> r.slept, pending |-> rl.pending]]
    /\ UNCHANGED <<dl, rt, sch, sv, ov, wr, sa, lg, passVars>>

\* the request is answered; lines 843-852 and 958-966: a download answered with 404
\* or 410 sets source._skip_next_rate_limit
RlRespond ==
    /\ rl.pc = "request"
    /\ \E request \in Requests, status \in {200, 404, 410, 500} :
          LET gone == request = "download" /\ Gone([status |-> status])
          IN  rl' = [rl EXCEPT !.pc = "idle",
                               !.source.skip = IF gone THEN TRUE ELSE @,
                               !.pending = gone]
    /\ UNCHANGED <<dl, rt, sch, sv, ov, wr, sa, lg, passVars>>

RlNext == RlRateLimit \/ RlRespond

SpecRateLimit == RlInit /\ [][RlNext]_vars

-----------------------------------------------------------------------------
(* Claims about download_image_to_file, checked under SpecDownload *)

\* the call has returned True after a range request that was answered with 206
ResumedSuccess ==
    /\ dl.pc = "done"
    /\ dl.ret = "true"
    /\ dl.range # NoTotal
    /\ dl.resp.status = 206

\* the file left at the destination hashes to the integrity header of the last response
\* (TRUE when the response carries none)
HashMatchesHeader ==
    LET integrity == _get_integrity_check(dl.resp)
    IN  integrity # NoIntegrity =>
            dl.file.exists /\ HashOf(integrity[1], dl.file.data) = integrity

\* C7 as stated: a resumed download (partial file of size S, range request answered
\* with 206) reports success only if the size of the resulting file equals the total
\* declared in Content-Range and its hash matches any integrity header of the response.
C7_ResumeVerifiesSizeAndHash ==
    ResumedSuccess =>
        /\ dl.resp.total # NoTotal => getsize(dl.file.data) = dl.resp.total
        /\ HashMatchesHeader

\* C7 as amended: a resumed download reports success only if the resulting file is the
\* partial file followed by the body received and, when Content-Range declares a total,
\* its size equals that total; the integrity headers of a 206 response are not checked.
C7_ResumeVerifiesSize ==
    ResumedSuccess =>
        /\ dl.file = FileOf(dl.file0.data \o dl.resp.body)
        /\ dl.resp.total # NoTotal => getsize(dl.file.data) = dl.resp.total

\* a resumed download that succeeded with a declared total and with an integrity
\* header the resulting file does not hash to
C7_Witness ==
    /\ ResumedSuccess
    /\ dl.resp.total # NoTotal
    /\ dl.resp.body # <<>>
    /\ ~HashMatchesHeader

\* the last response is a full (non-206) image response carrying a Content-Digest
FullWithContentDigest ==
    /\ dl.resp.status = 200
    /\ dl.resp.image
    /\ dl.resp.fault = "none"
    /\ _parse_content_digest(dl.resp.headers) # NoIntegrity

\* C8: when a full response carries a Content-Digest, download_image_to_file returns
\* on that response only with True and with a file that hashes to the digest; a body
\* that does not hash to it ends the attempt as a retryable failure with the file
\* deleted, and the call never returns True for it.
C8_IntegrityMismatchRejected ==
    /\ (dl.pc = "done" /\ FullWithContentDigest) =>
            /\ dl.ret = "true"
            /\ LET cd == _parse_content_digest(dl.resp.headers)
               IN  dl.file.exists /\ HashOf(cd[1], dl.file.data) = cd
    /\ (dl.pc = "loop" /\ dl.why = "integrity") =>
            /\ dl.file = NoFile
            /\ dl.existing_size = 0
            /\ dl.ret = "none"

\* an attempt was rejected for its digest, and the retry succeeded with a body that
\* hashes to the Content-Digest of its response
C8_Witness ==
    /\ dl.pc = "done"
    /\ dl.why = "integrity"
    /\ dl.ret = "true"
    /\ FullWithContentDigest


\* C20: once a request was answered with 404 or 410, that request is the last one
\* of the call, no file is left at the destination and the call returns False
C20_GoneStopsAndCleans ==
    dl.gone =>
        /\ dl.pc = "done"
        /\ dl.resp.status \in {404, 410}
        /\ dl.ret = "false"
        /\ ~dl.file.exists

C20_Witness ==
    /\ dl.gone
    /\ dl.pc = "done"
    /\ dl.file0.exists
    /\ dl.existing_size > 0
    /\ dl.attempt < dl.retries

\* the call has used up its attempts
Exhausted == dl.pc = "done" /\ dl.attempt > dl.retries

\* C21: a call makes at most max_retries requests, sleeps retry_delay before every
\* request but the first, and after max_retries failed attempts leaves no file at the
\* destination and returns False
C21_RetriesBoundedAndCleaned ==
    /\ dl.requests <= dl.retries
    /\ dl.pc = "loop" /\ dl.attempt <= dl.retries => dl.sleeps = dl.requests
    /\ dl.pc = "done" => dl.sleeps = dl.requests - 1
    /\ Exhausted => dl.requests = dl.retries /\ dl.ret = "false" /\ ~dl.file.exists

C21_Witness ==
    /\ Exhausted
    /\ dl.retries = MaxRetries
    /\ dl.file0.exists
    /\ dl.why = "stream"

\* the integrity headers in the order of preference, each with the algorithm its
\* digest is verified with
DigestOrder(headers) ==
    <<<<"sha-256", headers.cd_sha256>>, <<"sha-512", headers.cd_sha512>>,
      <<"md5", headers.cd_md5>>, <<"md5", headers.content_md5>>,
      <<"md5", headers.etag>>>>

\* the first header of the order that carries a digest
FirstDigest(headers) ==
    LET present == SelectSeq(DigestOrder(headers), LAMBDA d : d[2] # NoDigest)
    IN  IF present = <<>> THEN NoIntegrity ELSE Head(present)

\* C32: whatever full response answers an attempt, the body is verified against the
\* first digest in the order Content-Digest sha-256, sha-512, md5, Content-MD5, ETag:
\* the attempt succeeds when that digest is the body's and is retried as an integrity
\* failure when it is not, whatever the other headers say; without any of these
\* headers the download is accepted
C32_DigestChosenByPriority ==
    (dl.pc = "loop" /\ dl.attempt <= dl.retries) =>
        \A resp \in {r \in ResponsesFull : r.fault = "none"} :
            LET o == DownloadAttempt(dl.file, dl.existing_size, resp)
                first == FirstDigest(resp.headers)
            IN  IF first = NoIntegrity THEN o.kind = "true"
                ELSE IF HashOf(first[1], resp.body) = first
                THEN o.kind = "true" /\ o.file = FileOf(resp.body)
                ELSE o.kind = "retry" /\ o.why = "integrity"

\* a download that was accepted on its Content-Digest md5 although the ETag of the
\* response, lower in the order, was the digest of other bytes
C32_Witness ==
    /\ dl.pc = "done"
    /\ dl.ret = "true"
    /\ dl.resp.status = 200
    /\ dl.file0.exists
    /\ dl.resp.headers.cd_sha256 = NoDigest
    /\ dl.resp.headers.cd_sha512 = NoDigest
    /\ dl.resp.headers.cd_md5 = Checksum(dl.resp.body)
    /\ dl.resp.headers.etag \notin {NoDigest, Checksum(dl.resp.body)}

\* C33: an attempt sends a Range header, starting at the size of the file, exactly
\* when a file is at the destination, and such a file has at least MIN_IMAGE_SIZE
\* bytes (a smaller one found at the start is gone); the body of an image response is
\* appended to that file only when the status is 206, and on any other successful
\* status the file is the body alone
C33_ResumeOnlyPlausibleFileAndOn206 ==
    (dl.pc = "loop" /\ dl.attempt <= dl.retries) =>
        /\ RangeStart(dl.existing_size) # NoTotal <=> dl.file.exists
        /\ dl.file.exists =>
              /\ dl.existing_size = getsize(dl.file.data)
              /\ dl.existing_size >= MIN_IMAGE_SIZE
              /\ dl.file = dl.file0
        /\ (dl.file0.exists /\ getsize(dl.file0.data) >= MIN_IMAGE_SIZE
                            /\ dl.attempt = 1) => dl.file.exists
        /\ \A resp \in {r \in ResponsesFull \cup ResponsesPartial : r.fault = "none"} :
              LET o == DownloadAttempt(dl.file, dl.existing_size, resp)
              IN  o.kind = "true" =>
                      o.file = FileOf(IF resp.status = 206 /\ dl.file.exists
                                      THEN dl.file.data \o resp.body
                                      ELSE resp.body)

\* a file of plausible size was found, the range request was answered with 200, and
\* the file is now the full body
C33_Witness ==
    /\ dl.pc = "done"
    /\ dl.ret = "true"
    /\ dl.file0.exists
    /\ getsize(dl.file0.data) >= MIN_IMAGE_SIZE
    /\ dl.range = getsize(dl.file0.data)
    /\ dl.resp.status = 200
    /\ dl.file.data = dl.resp.body
    /\ dl.file.data # dl.file0.data

\* C38: whenever download_image_to_file returned False, no file is at the
\* destination, whichever way the download failed
C38_FalseLeavesNoFile ==
    (dl.pc = "done" /\ dl.ret = "false") => ~dl.file.exists

-----------------------------------------------------------------------------
(* Claims about one pass, checked under Spec *)

\* the items of a queue are in the order of their sort keys
OldestFirst(queue) ==
    \A i \in 1..Len(queue), j \in 1..Len(queue) :
        i < j => SortKey(queue[i]) <= SortKey(queue[j])

\* the length of a queue of n items after k rounds
LeftAfter(n, k) == IF n > k THEN n - k ELSE 0

\* C1: in _run_archive_round_robin the item an airport has processed in round k is the
\* k-th oldest of its queue, no airport has two items processed in one round, and
\* between two rounds an airport that started with n items has all but the first
\* k of them left after k rounds, whatever the other airports have pending: all n
\* are processed by the end of round n
C1_OneOldestItemPerRound ==
    /\ \A c \in DOMAIN hist.q0 : OldestFirst(hist.q0[c])
    /\ \A i \in 1..Len(hist.popped) :
          /\ hist.popped[i].round <= Len(hist.q0[hist.popped[i].code])
          /\ hist.popped[i].item = hist.q0[hist.popped[i].code][hist.popped[i].round]
          /\ \A j \in 1..Len(hist.popped) :
                (i # j /\ hist.popped[i].code = hist.popped[j].code)
                    => hist.popped[i].round # hist.popped[j].round
    /\ pc = "round" =>
          \A c \in DOMAIN hist.q0 :
              Len(queues[c]) = LeftAfter(Len(hist.q0[c]), hist.rounds)

\* the airport with the short queue had its item processed in round 1 while the
\* airport with MaxFrames items was drained in round MaxFrames
C1_Witness ==
    /\ pc = "after_rr"
    /\ hist.rr_end = "drained"
    /\ \E a \in DOMAIN hist.q0, b \in DOMAIN hist.q0 :
          /\ Len(hist.q0[a]) = MaxFrames
          /\ Len(hist.q0[b]) = 1
          /\ \E i \in 1..Len(hist.popped), j \in 1..Len(hist.popped) :
                /\ i < j
                /\ hist.popped[i].code = b
                /\ hist.popped[j].code = a
                /\ hist.popped[j].round = MaxFrames

\* C2: during the round-robin no item is popped or downloaded once the current time
\* has reached the deadline
C2_NoItemAfterDeadline == ~hist.late

\* C3, as stated: a pass called with a deadline already past ends with timed_out set,
\* no image fetched and apply_retention run
C3_PastDeadlineSkips ==
    (pc = "done" /\ hist.past) =>
        (stats.timed_out /\ stats.images_fetched = 0 /\ hist.retention = 1)

\* C3, amended: a pass called with a deadline already past, whose airport list was
\* fetched and selects at least one airport, ends with timed_out set, no image
\* fetched and apply_retention run once
C3_PastDeadlineSkipsSelected ==
    (pc = "done" /\ hist.past /\ loop.airports # <<>>) =>
        (stats.timed_out /\ stats.images_fetched = 0 /\ hist.fetched = {}
         /\ hist.retention = 1)

C3_Witness ==
    /\ pc = "done"
    /\ hist.past
    /\ loop.airports # <<>>
    /\ stats.timed_out
    /\ hist.retention = 1

\* the round-robin returned, by the deadline or with nothing left to do
RoundRobinReturned ==
    /\ cfg.use_history
    /\ pc \in {"airports", "urls", "retention", "done"}
    /\ hist.rr_end \in {"deadline", "drained"}

\* C4: in history mode, after the round-robin returned, timed_out is reported exactly
\* when it stopped at the deadline and a queue is not empty; it is not reported when
\* every queue was drained
C4_TimedOutIffQueuesLeft ==
    RoundRobinReturned =>
        (stats.timed_out <=> (hist.rr_end = "deadline"
                              /\ \E c \in DOMAIN queues : queues[c] # <<>>))

\* a pass that processed items, stopped at the deadline with items left and
\* reported timed_out
C4_Witness ==
    /\ RoundRobinReturned
    /\ pc = "done"
    /\ hist.rr_end = "deadline"
    /\ hist.popped # <<>>
    /\ \E c \in DOMAIN queues : queues[c] # <<>>
    /\ stats.timed_out

\* the items of airport c the round-robin has processed, in the order it took them
PoppedItems(c) ==
    LET mine == SelectSeq(hist.popped, LAMBDA p : p.code = c)
    IN  [i \in 1..Len(mine) |-> mine[i].item]

\* C39: without a deadline _run_archive_round_robin comes to an end, and when it has
\* ended every queue is empty and every item that was queued has been processed
\* exactly once
C39_RoundRobinDrainsQueues ==
    /\ (pc = "round" /\ deadline = NoDeadline) ~> (hist.rr_end # "none")
    /\ []((deadline = NoDeadline /\ hist.rr_end # "none") =>
             /\ \A c \in DOMAIN queues : queues[c] = <<>>
             /\ \A c \in DOMAIN hist.q0 : PoppedItems(c) = hist.q0[c])

\* C40: at every point of a pass images_saved is at most images_fetched; no step
\* of the pass, the processing of an item included, adds more than one to
\* images_fetched or to images_saved; and no counter of the stats ever goes down
C40_CountersOnlyGrow ==
    /\ [](stats.images_saved <= stats.images_fetched)
    /\ [][/\ stats'.images_fetched \in {stats.images_fetched, stats.images_fetched + 1}
          /\ stats'.images_saved \in {stats.images_saved, stats.images_saved + 1}
          /\ stats'.airports_processed >= stats.airports_processed
          /\ stats'.errors >= stats.errors]_vars

\* a pass is over that saved some of the images it fetched and failed on others
C40_Witness ==
    /\ pc = "done"
    /\ stats.images_saved > 0
    /\ stats.images_saved < stats.images_fetched
    /\ hist.popped # <<>>

\* C6: two saved frames of different identity (airport code, camera index, capture
\* timestamp) are never written to the same path
C6_IdentitiesKeepPathsApart ==
    \A a \in hist.saved, b \in hist.saved : a.id # b.id => a.path # b.path

\* C9: every download that failed after all retry attempts is counted in the errors
\* of the pass
C9_ExhaustedRetriesCounted == stats.errors >= hist.exhausted

\* C10: no OSError leaves the save of a frame
C10_NoOSErrorEscapes == ~hist.raised

\* C22: of two items of one airport, the one processed first is a history frame
\* whenever the other is one, and then its capture timestamp is not the later one
C22_AirportItemsInTimestampOrder ==
    \A i \in 1..Len(hist.popped), j \in 1..Len(hist.popped) :
        (i < j /\ hist.popped[i].code = hist.popped[j].code) =>
            LET first == hist.popped[i].item.frame
                second == hist.popped[j].item.frame
            IN  /\ second # NoFrame => first # NoFrame /\ first <= second
                /\ first = NoFrame => second = NoFrame

\* an airport with two cameras: a frame of the second camera was processed before a
\* later frame of the first
C22_Witness ==
    /\ hist.rr_end = "drained"
    /\ \E i \in 1..Len(hist.popped), j \in 1..Len(hist.popped) :
          /\ i < j
          /\ hist.popped[i].code = hist.popped[j].code
          /\ hist.popped[i].item.frame # NoFrame
          /\ hist.popped[i].item.frame < hist.popped[j].item.frame
          /\ hist.popped[i].item.webcam.index > hist.popped[j].item.webcam.index

\* C26: a pass that selected at least one airport has called apply_retention exactly
\* once when it returns, also when it timed out or the round-robin stage raised, and
\* the call is the last thing the pass does: no step of the pass follows it
C26_RetentionOnceAtTheEnd ==
    /\ hist.retention <= 1
    /\ hist.retention = 1 => pc = "done"
    /\ (pc = "done" /\ loop.airports # <<>>) => hist.retention = 1

\* a pass that fetched a frame, met an OSError in the round-robin stage, and was
\* past its deadline when it applied retention and returned
C26_Witness ==
    /\ pc = "done"
    /\ hist.retention = 1
    /\ hist.rr_end = "raised"
    /\ hist.fetched # {}
    /\ DeadlineReached(now)

\* C27: once the deadline of the pass is reached, _run_archive_current_only starts
\* no further download
C27_NoCurrentOnlyDownloadAfterDeadline == ~hist.late_current

-----------------------------------------------------------------------------
(* Claims about two passes in a row, checked under SpecTwice *)

C36_SkippedOnlyWhenSavedComplete ==
    hist.run = 2 => hist.skipped \subseteq hist.complete

\* C25: a pass whose airport list came back empty is over at once with errors = 1:
\* no airport processed, no image requested, retention not applied, and the archive
\* as the pass found it
C25_EmptyListReturnsAtOnce ==
    hist.empty_list =>
        /\ pc = "done"
        /\ stats.errors = 1
        /\ stats.airports_processed = 0
        /\ stats.images_fetched = 0
        /\ hist.fetched = {}
        /\ hist.retention = 0
        /\ fs = hist.tree0

\* the second pass found files in the archive and no airports upstream
C25_Witness ==
    /\ hist.empty_list
    /\ hist.run = 2
    /\ fs # {}
    /\ cfg.retention_max_bytes > 0

-----------------------------------------------------------------------------
(* Claims about apply_retention, checked under SpecRetention *)

\* the files the size phase found and the files it deleted
SizeBefore == RetentionFiles(rt.mid)

SizeDeleted == rt.mid \ rt.tree

\* the bytes above the budget when the size phase starts
Overage == SumSizes(SizeBefore) - rt.config.retention_max_bytes

C13_MetadataKeptAndNotCounted ==
    rt.pc = "done" =>
        /\ \A f \in rt.tree0 : f.path.kind = "meta" => f \in rt.tree
        /\ (rt.config.retention_max_bytes > 0
            /\ SumSizes({f \in rt.mid : f.path.kind # "meta"})
                  <= rt.config.retention_max_bytes)
              => rt.tree = rt.mid

\* a metadata.json older than the cutoff, in an archive that is over the budget only
\* when metadata.json is counted, survived a call that deleted nothing by size
C13_Witness ==
    /\ rt.pc = "done"
    /\ rt.config.retention_days = 1
    /\ rt.config.retention_max_bytes > 0
    /\ \E f \in rt.tree : f.path.kind = "meta" /\ f.mtime < RetentionCutoff
    /\ SumSizes(rt.mid) > rt.config.retention_max_bytes
    /\ RetentionFiles(rt.mid) # {}
    /\ rt.tree = rt.mid

\* C23: with retention_days = 0 the age phase deletes nothing, with a byte budget of 0
\* the size phase deletes nothing, and with both 0 the archive is as it was and 0 is
\* returned
C23_ZeroDisablesPhase ==
    rt.pc = "done" =>
        /\ rt.config.retention_days = 0 => rt.mid = rt.tree0
        /\ rt.config.retention_max_bytes = 0 => rt.tree = rt.mid
        /\ (rt.config.retention_days = 0 /\ rt.config.retention_max_bytes = 0) =>
              rt.tree = rt.tree0 /\ rt.deleted = 0

\* an archive of MaxRetentionFiles old files of two blocks, left alone
C23_Witness ==
    /\ rt.pc = "done"
    /\ rt.config.retention_days = 0
    /\ rt.config.retention_max_bytes = 0
    /\ Cardinality(RetentionFiles(rt.tree)) = MaxRetentionFiles
    /\ \A f \in RetentionFiles(rt.tree) : f.mtime < RetentionCutoff /\ Len(f.data) > 1

\* C24: the number apply_retention returns is the number of files that are gone, and
\* a file whose removal fails is still there
C24_ReturnsFilesRemoved ==
    rt.pc = "done" =>
        /\ rt.tree \subseteq rt.tree0
        /\ rt.deleted = Cardinality(rt.tree0 \ rt.tree)
        /\ \A f \in rt.tree0 : f.path \in rt.stuck => f \in rt.tree

\* a file past the cutoff could not be removed, another one was
C24_Witness ==
    /\ rt.pc = "done"
    /\ rt.deleted > 0
    /\ \E f \in rt.tree : f.path \in rt.stuck /\ f.mtime < RetentionCutoff
    /\ rt.config.retention_days > 0

-----------------------------------------------------------------------------
(* Claims about the scheduler and the worker, checked under SpecScheduler *)

\* C14: a call of _archive_job that finds the running flag set starts a pass only
\* when the flag is stale, and then it does start one (the flag cleared and taken
\* again); when the flag is fresh the call returns without starting a worker
C14_FlagSetCallRestartsOrReturns ==
    /\ [](\A j \in Jobs : sch.th[j].started => sch.th[j].found \in {"free", "stale"})
    /\ \A j \in Jobs : (sch.th[j].found = "stale") ~> sch.th[j].started
    /\ \A j \in Jobs : (sch.th[j].found = "busy") ~> (sch.th[j].pc = "returned")

\* the worker of j has put its complete message or is gone
WorkerOver(j) == sch.th[j].started /\ sch.wk[j].pc \in {"sent", "exited", "crashed"}

\* C15: once the worker of a job that set the running flag has put its complete
\* message or is gone, the flag becomes false; and the result of a worker that put
\* no complete message is the made-up crash error
C15_FlagReleasedAfterWorker ==
    /\ \A j \in Jobs : WorkerOver(j) ~> ~sch.running
    /\ [](\A j \in Jobs :
            (sch.th[j].pc = "handle" /\ sch.wk[j].pc = "crashed")
                => sch.th[j].result = CrashResult)

\* the positions of the complete messages among the messages a worker has put
Completes(sent) == {i \in 1..Len(sent) : sent[i].type = "complete"}

\* C16: a worker that has not crashed puts exactly one complete message, with stats
\* and no error or with an error and no stats, and nothing after it
C16_OneCompleteMessageLast ==
    \A j \in Jobs :
        LET sent == sch.wk[j].sent
        IN  /\ Completes(sent) \subseteq {Len(sent)}
            /\ sch.wk[j].pc \in {"sent", "exited"} =>
                  /\ Completes(sent) = {Len(sent)}
                  /\ sent # <<>>
                  /\ LET msg == sent[Len(sent)]
                     IN  \/ msg.stats = "stats" /\ msg.error = "none"
                         \/ msg.stats = "none" /\ msg.error # "none"

C16_Witness ==
    \E j \in Jobs :
        /\ sch.wk[j].pc = "exited"
        /\ Len(sch.wk[j].sent) > MaxLogs
        /\ sch.th[j].pc = "returned"

\* C17: trigger_run returns True only for a call whose thread starts a pass, and
\* False without starting a thread
C17_TrueOnlyWhenRunStarted ==
    \A w \in Webs :
        /\ sch.web[w].ret = "true" => sch.th[JobOf(w)].found # "busy"
        /\ sch.web[w].ret = "false" => sch.th[JobOf(w)].pc = "idle"

\* the worker of j has put a complete message that carries stats
ReportedStats(j) ==
    /\ sch.wk[j].sent # <<>>
    /\ sch.wk[j].sent[Len(sch.wk[j].sent)].type = "complete"
    /\ sch.wk[j].sent[Len(sch.wk[j].sent)].stats = "stats"

\* C29: last_run, last_stats and run_count change only when a job stores the stats
\* its worker reported, run_count by one (so not after an error, a crash or a failed
\* validation); stats a worker reported are stored; and every started run whose
\* worker is gone returns from _archive_job, with the running flag false as it
\* returns
C29_StatsStoredFlagReset ==
    /\ [][(\/ sch'.run_count # sch.run_count
           \/ sch'.last_stats # sch.last_stats
           \/ sch'.last_run # sch.last_run)
          => \E j \in Jobs :
                /\ sch.th[j].result.stats = "stats"
                /\ sch'.th[j].updated
                /\ sch'.last_stats = "stats"
                /\ sch'.run_count = sch.run_count + 1]_vars
    /\ \A j \in Jobs : ReportedStats(j) ~> sch.th[j].updated
    /\ \A j \in Jobs :
          (sch.th[j].started /\ WorkerDead(sch.wk[j])) ~> (sch.th[j].pc = "returned")
    /\ [][\A j \in Jobs :
            (sch.th[j].started /\ sch.th[j].pc # "returned"
                               /\ sch'.th[j].pc = "returned") => ~sch'.running]_vars

C37_ResultNeverALogRecord ==
    \A j \in Jobs :
        sch.th[j].pc \in {"join", "handle", "update", "err_log", "ok_log", "finally",
                          "returned"}
            => sch.th[j].result.type \in {"none", "complete", "crash"}

-----------------------------------------------------------------------------
(* Claims about save_image and save_history_image, checked under SpecSave *)

\* the first call found at the path a file whose content is the bytes it was given
SavedIdentical ==
    /\ sv.calls >= 1
    /\ SavePath(sv.fn) \in Paths(sv.tree0)
    /\ FileAt(sv.tree0, SavePath(sv.fn)).data = sv.image_data

\* C19: a call with the bytes the file at the computed path already holds leaves the
\* file and its mtime as they were and returns the path; and a call that repeats a
\* call which returned the path changes nothing
C19_IdenticalBytesLeaveFile ==
    /\ SavedIdentical => sv.tree = sv.tree0 /\ sv.ret = "path" /\ sv.ret1 = "path"
    /\ (sv.calls >= 2 /\ sv.ret1 = "path") => sv.tree = sv.first /\ sv.ret = "path"

C19_Witness ==
    /\ SavedIdentical
    /\ MtimeAt(sv.tree0, SavePath(sv.fn)) # FrameTs(1)
    /\ sv.fn = "save_image"
    /\ sv.fault = "write"
    /\ sv.calls = SaveCalls

-----------------------------------------------------------------------------
(* Claims about overlapping passes, checked under SpecOverlap *)

\* C18: when two passes download the same frame, no pass appends to, cuts or deletes
\* the file the other one holds open, and when both are through, the path holds the
\* whole frame whenever a pass reported it downloaded, and never anything else
C18_OverlapLeavesCompleteFrames ==
    /\ ov.events = {}
    /\ (\A p \in Writers : ov.w[p].pc = "done") =>
          /\ ov.path # 0 => ov.inodes[ov.path] = FrameBody
          /\ (\E p \in Writers : ov.w[p].ret = "true") => ov.path # 0

-----------------------------------------------------------------------------
(* Claims about the time limit of a run, checked under SpecRunLimit *)

\* C28: the deadline run_archive_worker passes to run_archive is the time the worker
\* started plus 0.9 x max(1, interval_minutes) x 60 seconds (54 seconds per minute
\* of interval); it lies before the moment the 2 x interval threshold of _archive_job
\* runs out for this run, so a later call never finds the run stale before its
\* deadline
C28_DeadlineBeforeStaleThreshold ==
    wr.pc = "running" =>
        /\ wr.deadline = wr.started + 54 * (IF ScheduleInterval(wr.config_interval) > 1
                                            THEN ScheduleInterval(wr.config_interval)
                                            ELSE 1)
        /\ wr.threshold = 120 * (IF ScheduleInterval(wr.config_interval) > 1
                                 THEN ScheduleInterval(wr.config_interval)
                                 ELSE 1)
        /\ wr.deadline - wr.started < wr.threshold
        /\ wr.deadline < wr.since + wr.threshold
        /\ wr.stale => wr.clock > wr.deadline

\* a run of the shortest interval whose worker started late and which a later call
\* found stale
C28_Witness ==
    /\ wr.pc = "running"
    /\ wr.config_interval = 1
    /\ wr.started > wr.since
    /\ wr.stale

-----------------------------------------------------------------------------
(* Claims about select_airports, checked under SpecSelect *)

\* two codes are equal when compared case-insensitively
SameIgnoringCase(x, y) ==
    \/ x = y
    \/ {x, y} = {"ka", "KA"}
    \/ {x, y} = {"kb", "KB"}

\* the keys among code, id, icao that the airport has, in this order
PresentKeys(airport) ==
    SelectSeq(<<"code", "id", "icao">>, LAMBDA key : key \in DOMAIN airport)

\* the keys among code, id, icao that the airport has with a value that is not empty
NonEmptyKeys(airport) ==
    SelectSeq(<<"code", "id", "icao">>,
              LAMBDA key : key \in DOMAIN airport /\ airport[key] # "")

\* the value of the first of the keys, the empty string when there is none
FirstOf(airport, keys) == IF keys = <<>> THEN "" ELSE airport[Head(keys)]

\* the airports of the listing, in its order, whose code is one of the selected
Matching(all_airports, selected, Keys(_)) ==
    SelectSeq(all_airports,
              LAMBDA airport :
                  \E c \in selected : SameIgnoringCase(FirstOf(airport, Keys(airport)), c))

\* C30 as stated: select_airports returns the whole listing when archive_all is set;
\* otherwise the airports, in upstream order, whose code (the first present of code,
\* id, icao) equals a configured code case-insensitively; none when no code is
\* configured
C30_SelectsByFirstPresentCode ==
    sa.pc = "done" =>
        sa.result = IF sa.config.archive_all THEN sa.all_airports
                    ELSE Matching(sa.all_airports, sa.config.selected, PresentKeys)

\* C30, amended: the code of an airport is the first of code, id, icao whose value is
\* not empty (the empty string when there is none)
C30_SelectsByFirstNonEmptyCode ==
    sa.pc = "done" =>
        sa.result = IF sa.config.archive_all THEN sa.all_airports
                    ELSE Matching(sa.all_airports, sa.config.selected, NonEmptyKeys)

\* a call with codes configured that kept both airports of the listing, in order, the
\* first by its id behind an empty code, the second by a code in the other case
C30_Witness ==
    /\ sa.pc = "done"
    /\ ~sa.config.archive_all
    /\ sa.config.selected = {"KA", "kb"}
    /\ sa.result = sa.all_airports
    /\ Len(sa.result) = 2
    /\ "code" \in DOMAIN sa.result[1] /\ sa.result[1]["code"] = ""
    /\ "code" \in DOMAIN sa.result[2] /\ sa.result[2]["code"] = "KB"

-----------------------------------------------------------------------------
(* Claims about _append_log, checked under SpecLog *)

\* C31: after any sequence of _append_log calls _log_bytes is the sum of the sizes of
\* the entries in log_entries, the entries kept are the latest ones appended, in
\* order (the evicted ones are the oldest), and _log_bytes is within _MAX_LOG_BYTES
\* unless a single entry remains
C31_LogBytesMatchEntries ==
    /\ lg.log_bytes = SumBytes(lg.log_entries)
    /\ \A i \in 1..Len(lg.log_entries) :
          lg.log_entries[i].n = lg.appended - Len(lg.log_entries) + i
    /\ lg.log_bytes <= MaxLogBytes \/ Len(lg.log_entries) = 1
    /\ lg.appended > 0 => lg.log_entries # <<>>

\* entries were evicted, several remain, and then one entry larger than the budget
\* is all that is left
C31_Witness ==
    /\ lg.appended = MaxAppends
    /\ Len(lg.log_entries) = 1
    /\ lg.log_bytes > MaxLogBytes

-----------------------------------------------------------------------------
(* Claims about _rate_limit, checked under SpecRateLimit *)

\* C34: a call of _rate_limit returns without sleeping exactly when a download was
\* answered with 404/410 since the previous call (unless the delay is zero), and it
\* leaves the skip flag clear; every other call sleeps for the delay in force; the
\* flag is set exactly from such an answer until the next call
C34_SkipExactlyOnceAfterGone ==
    /\ rl.source.skip = rl.pending
    /\ rl.pc = "request" => ~rl.source.skip
    /\ rl.calls > 0 =>
          rl.last.slept = IF rl.last.pending THEN 0
                          ELSE IF rl.source.detected # NoDelay THEN rl.source.detected
                          ELSE rl.source.configured

\* a 404/410 made one call return at once, and the call after it slept again: the
\* last call slept although calls before it had been skipped
C34_Witness ==
    /\ rl.calls = MaxCalls
    /\ rl.skipped = 1
    /\ rl.pc = "request"
    /\ rl.last.slept > 0
    /\ ~rl.last.pending
    /\ rl.source.detected = NoDelay

====
